---- MODULE Spec2Model ----
(***************************************************************************)
(* Cook: the tree-walking evaluator (pkg/cook/ast).  The model follows the *)
(* Go call structure: `stack` holds one frame per evaluation in progress   *)
(* (ExecuteWithTarget, BlockStatement.Evaluate, ForStatement.Evaluate,     *)
(* Target.Execute, Function.internalExecute), `ret` carries the value a    *)
(* finished evaluation hands to its caller, and `ctx` is the xContext.     *)
(***************************************************************************)
EXTENDS Integers, Sequences, FiniteSets, TLC

VARIABLES
    prog,     \* the cook struct: Insts, initializeTargets, finalizeTargets, targetIndexes, targetAll, fns
    names,    \* the target names given to ExecuteWithTarget
    pargs,    \* the caller's argument map
    ctx,      \* the xContext: scope (chain root..current), loopsLabel, continueAt, breakAt, loops
    nid,      \* number of xScope objects allocated so far (identity of the next one)
    stack,    \* evaluations in progress, innermost last
    ret,      \* what the evaluation that just finished returned to its caller
    result,   \* outcome of the call: "idle", "running", "nil", an error, or "panic"
    obs,      \* history of the run kept for stating the properties
    scanner,  \* the scanner struct of a scan made on its own: src, ch, offset, rdOffset, mode, ...
    parser,   \* the parser struct, its scanner included, and the files it reads
    env,      \* the process environment read by os.Getenv: variable name -> string
    heap      \* the arrays and maps the values of kind Slice and Map point to, by address

vars == <<prog, names, pargs, ctx, nid, stack, ret, result, obs, scanner, parser, env, heap>>

-----------------------------------------------------------------------------
(* Bounds *)

\* iterations of the range loops of the programs explored
MaxIter == 2
\* the endpoints of the intervals explored are 0..MaxEnd
MaxEnd == 10
\* calls of AddTarget made on one cook, and the source files they come from
MaxAdds == 4
NumFiles == 3
\* calls of Scan that return EOF
MaxEOF == 2

-----------------------------------------------------------------------------
(* Values and errors *)

Nil == "nil"                       \* the nil error
ErrNotExist == "variable does not exist"
ErrNoTarget == "target or function is not exist"
ErrNoAll == "target all is not defined in any Cookfile"
ErrArgs == "wrong number of argument"
ErrKind == "for loop index type cannot be modfied"

\* a value with its reflect.Kind; NilVal is (nil, reflect.Invalid)
IntVal(n) == [k |-> "Int64", v |-> n]
\* a float64 with the integral value n
FloatVal(n) == [k |-> "Float64", v |-> n]
NilVal == [k |-> "Invalid", v |-> 0]

\* what a finished evaluation hands to its caller: the error, plus which kind of
\* evaluation it was and what the context looked like when that evaluation began
NoRet == [set |-> FALSE, err |-> Nil, from |-> "", sid |-> -1, ll |-> -1,
          broke |-> FALSE, before |-> <<>>, val |-> NilVal]
Ret(e) == [NoRet EXCEPT !.set = TRUE, !.err = e, !.from = "stmt"]
RetFrom(e, from, in) == [NoRet EXCEPT !.set = TRUE, !.err = e, !.from = from,
                                      !.sid = in.sid, !.ll = in.ll]

Last(s) == s[Len(s)]
Front(s) == SubSeq(s, 1, Len(s) - 1)

-----------------------------------------------------------------------------
(* AST nodes *)

TargetInitialize == "initialize"
TargetFinalize == "finalize"
TargetAll == "all"

\* AssignStatement with a BasicLit (INTEGER) value; aop is "=" or "+="
Assign(n, v) == [op |-> "assign", aop |-> "=", name |-> n, val |-> v]
\* name = "text"
AssignString(n, v) == [op |-> "assign", aop |-> "=", name |-> n, val |-> v, kind |-> "String"]
AddAssign(n, v) == [op |-> "assign", aop |-> "+=", name |-> n, val |-> v]
\* BreakContinueStatement
Break(l) == [op |-> "break", label |-> l]
Continue(l) == [op |-> "continue", label |-> l]
\* ReturnStatement of an INTEGER literal
Return(v) == [op |-> "return", val |-> v]
\* IfStatement; else is <<>> (no else), <<"if", IfStatement>> or <<"block", stmts>>
If(then) == [op |-> "if", then |-> then, else |-> <<>>]
IfElseIf(then, elif) == [op |-> "if", then |-> then, else |-> <<"if", elif>>]
IfElse(then, els) == [op |-> "if", then |-> then, else |-> <<"block", els>>]
\* ForStatement over an Interval of INTEGER literals
For(l, i, a, ainc, b, binc, body) ==
    [op |-> "for", label |-> l, I |-> i,
     Range |-> [A |-> a, AInclude |-> ainc, B |-> b, BInclude |-> binc, float |-> FALSE],
     Insts |-> body]
\* ForStatement over an Interval of FLOAT literals (a.0 and b.0)
ForFloat(l, i, a, ainc, b, binc, body) ==
    [op |-> "for", label |-> l, I |-> i,
     Range |-> [A |-> a, AInclude |-> ainc, B |-> b, BInclude |-> binc, float |-> TRUE],
     Insts |-> body]
\* ExprWrapperStatement of a Call with Kind AT; args are INTEGER literals
Call(n, args) == [op |-> "call", name |-> n, args |-> args]

-----------------------------------------------------------------------------
(* xScope *)

\* returnResult is <<>> for nil
NewScope(id) ==
    [id |-> id, hasChild |-> FALSE, vars |-> <<>>, bubble |-> <<>>, returnResult |-> <<>>]

\* xContext.SetReturnValue: the value is kept by the current scope
SetReturnValue(c, val) == [c EXCEPT !.scope[Len(c.scope)].returnResult = <<val>>]

\* xContext.GetReturnValue: the value the current scope keeps, nil if it keeps none
GetReturnValue(c) ==
    IF c.scope[Len(c.scope)].returnResult # <<>> THEN c.scope[Len(c.scope)].returnResult[1]
    ELSE NilVal

Bind(vs, name, val) ==
    [n \in (DOMAIN vs) \cup {name} |-> IF n = name THEN val ELSE vs[n]]

\* xScope.GetVariable on the scope at position d of the chain sc
RECURSIVE GetVariable(_, _, _)
GetVariable(sc, d, name) ==
    IF name \in DOMAIN sc[d].vars THEN sc[d].vars[name]
    ELSE IF d = 1 THEN NilVal
    ELSE GetVariable(sc, d - 1, name)

\* xScope.SetVariable on the scope at position d of the chain sc (bubble = nil):
\* the chain after the call and the call's boolean result
RECURSIVE SetVariable(_, _, _, _)
SetVariable(sc, d, name, val) ==
    IF name \in DOMAIN sc[d].vars
    THEN [scope |-> [sc EXCEPT ![d].vars = Bind(sc[d].vars, name, val)], ok |-> TRUE]
    ELSE IF sc[d].hasChild
    THEN IF d = 1 THEN [scope |-> sc, ok |-> FALSE]
         ELSE SetVariable(sc, d - 1, name, val)
    ELSE IF d = 1
    THEN [scope |-> [sc EXCEPT ![d].vars = Bind(sc[d].vars, name, val)], ok |-> TRUE]
    ELSE LET r == SetVariable(sc, d - 1, name, val)
         IN  IF r.ok THEN [scope |-> r.scope, ok |-> TRUE]
             ELSE [scope |-> [r.scope EXCEPT ![d].vars = Bind(r.scope[d].vars, name, val)],
                   ok |-> TRUE]

-----------------------------------------------------------------------------
(* xContext *)

\* cook.renewContext
renewContext ==
    [scope |-> <<NewScope(0)>>, loopsLabel |-> <<>>, continueAt |-> -1,
     breakAt |-> -1, loops |-> <<>>]

\* xContext.SetVariable / xContext.GetVariable act on the current scope
CtxSet(c, name, val) == [c EXCEPT !.scope = SetVariable(c.scope, Len(c.scope), name, val).scope]
CtxGet(c, name) == GetVariable(c.scope, Len(c.scope), name)
\* SetVariable through a Scope handle kept by the caller (position d of the chain)
ScopeSet(c, d, name, val) == [c EXCEPT !.scope = SetVariable(c.scope, d, name, val).scope]

\* the loopIndex EnterBlock gives a loop pushed on a loop stack of n labels
LoopIndex(n) == n

\* xContext.EnterBlock; id is the identity of the new scope
EnterBlock(c, id, forLoop, loopLabel) ==
    LET c1 == [c EXCEPT !.scope = Append(c.scope, NewScope(id))]
    IN  IF forLoop
        THEN [c1 EXCEPT !.loopsLabel = Append(c.loopsLabel, loopLabel),
                        !.loops = Append(c.loops, LoopIndex(Len(c.loopsLabel)))]
        ELSE c1

\* the loop index EnterBlock returned for that call
EnterIndex(c, forLoop) == IF forLoop THEN LoopIndex(Len(c.loopsLabel)) ELSE -1

\* ExitBlock panics on a wrong loop index or on the outermost scope
ExitPanics(c, index) ==
    \/ index >= 0 /\ index # Len(c.loopsLabel) - 1
    \/ Len(c.scope) = 1

\* a variant of ExitBlock that leaves the loop stack as it is
ExitBlockKeepsLoops(c, index) == [c EXCEPT !.scope = Front(c.scope)]

\* xContext.ExitBlock (when it does not panic)
ExitBlock(c, index) ==
    LET c1 == IF index >= 0
              THEN [c EXCEPT !.loopsLabel = SubSeq(c.loopsLabel, 1, index),
                             !.loops = Front(c.loops)]
              ELSE c
    IN  [c1 EXCEPT !.scope = Front(c1.scope)]

\* xContext.currentLoop
currentLoop(c) == IF Len(c.loops) > 0 THEN Last(c.loops) ELSE -1

\* xContext.ShouldBreak
ShouldBreak(c, fromLoop) ==
    IF Len(c.loopsLabel) > 0
    THEN LET loop == currentLoop(c)
         IN  \/ c.breakAt >= 0 /\ c.breakAt <= loop
             \/ c.continueAt >= 0
                /\ (c.continueAt < loop \/ (~fromLoop /\ c.continueAt = loop))
    ELSE FALSE

\* xContext.ResetBreakContinue
ResetBreakContinue(c) == [c EXCEPT !.breakAt = -1, !.continueAt = -1]

\* index of the nearest enclosing loop carrying the label, -1 when there is none
RECURSIVE FindLabel(_, _, _)
FindLabel(labels, i, label) ==
    IF i < 1 THEN -1
    ELSE IF labels[i] = label THEN i - 1
    ELSE FindLabel(labels, i - 1, label)

\* the loop index Break / Continue record, -1 when they record nothing
LabelTarget(c, label) ==
    IF Len(c.loopsLabel) = 0 THEN -1
    ELSE IF label = "" THEN Len(c.loopsLabel) - 1
    ELSE FindLabel(c.loopsLabel, Len(c.loopsLabel), label)

\* xContext.Break (its error is dropped by BreakContinueStatement.Evaluate)
DoBreak(c, label) ==
    IF LabelTarget(c, label) >= 0 THEN [c EXCEPT !.breakAt = LabelTarget(c, label)] ELSE c

\* xContext.Continue
DoContinue(c, label) ==
    IF LabelTarget(c, label) >= 0 THEN [c EXCEPT !.continueAt = LabelTarget(c, label)] ELSE c

\* xContext.GetTarget: position in targetIndexes, 0 for nil
GetTarget(p, name) ==
    IF \E i \in 1..Len(p.targetIndexes) : p.targetIndexes[i].name = name
    THEN CHOOSE i \in 1..Len(p.targetIndexes) : p.targetIndexes[i].name = name
    ELSE 0

-----------------------------------------------------------------------------
(* Interval *)

\* the step of an Interval without a Step node
DefaultStep == 1

\* the element kind of the slice Interval.Evaluate returns: []float64 when an
\* endpoint is a float, []int64 otherwise
IntervalKind(r) == IF r.float THEN "Float64" ELSE "Int64"

\* Interval.Evaluate on numeric endpoints: <<start, end, step>>, or <<>> (the empty
\* slice); the float and the integer branch do the same arithmetic
IntervalEvaluate(r) ==
    LET st == DefaultStep
    IN  IF (~r.AInclude \/ ~r.BInclude) /\ r.A = r.B THEN <<>>
        ELSE LET ia == IF ~r.AInclude
                       THEN (IF r.A > r.B THEN r.A - st ELSE r.A + st)
                       ELSE r.A
                 ib == IF ~r.BInclude
                       THEN (IF ia > r.B THEN r.B + st ELSE r.B - st)
                       ELSE r.B
             IN  <<ia, ib, st>>

-----------------------------------------------------------------------------
(* Frames of the call stack *)

Top == Last(stack)
Pop == Front(stack)
Push(f) == Append(stack, f)
SetTop(f) == [stack EXCEPT ![Len(stack)] = f]

\* the current scope and the loop-stack length, as seen when an evaluation begins
In(c) == [sid |-> Last(c.scope).id, ll |-> Len(c.loopsLabel)]

ExecFrame == [f |-> "exec", pc |-> "top", i |-> 0, err |-> Nil, panicking |-> FALSE]
BlockFrame(stmts) == [f |-> "block", stmts |-> stmts, i |-> 1]
ForFrame(node, lid, sd, rg, in) ==
    [f |-> "for", node |-> node, lid |-> lid, sd |-> sd, i |-> rg[1], end |-> rg[2],
     step |-> rg[3], down |-> rg[1] > rg[2], in |-> in, kind |-> IntervalKind(node.Range)]
TargetFrame(via, in) == [f |-> "target", via |-> via, in |-> in]
FnFrame(params, before, in) == [f |-> "fn", params |-> params, before |-> before, in |-> in]

\* BlockStatement.Evaluate is about to evaluate its next statement
AtStmt == stack # <<>> /\ Top.f = "block" /\ ~ret.set /\ Top.i <= Len(Top.stmts)
Stmt == Top.stmts[Top.i]

\* ExecuteWithTarget is the innermost evaluation and stands at pc
AtExec(pc) == stack # <<>> /\ Top.f = "exec" /\ Top.pc = pc

\* the deferred finalize loop of ExecuteWithTarget is running
InFinalize == stack # <<>> /\ stack[1].f = "exec" /\ stack[1].pc = "final"
\* a requested target is running
InRequested == stack # <<>> /\ stack[1].f = "exec" /\ stack[1].pc \in {"names", "alleach", "allone"}

-----------------------------------------------------------------------------
(* History kept for the properties *)

Event(ev, ph, n, i) == [ev |-> ev, ph |-> ph, n |-> n, i |-> i]

Obs0(p) ==
    [log |-> <<>>,                                          \* phases begun and ended, in order
     finRuns |-> [i \in 1..Len(p.finalizeTargets) |-> 0],   \* times each finalize target was run
     finErr |-> FALSE,                                      \* a finalize target returned an error
     mainErr |-> "",                                        \* what the body of ExecuteWithTarget returned
     firstErr |-> "",                                       \* the first error of a statement outside finalize
     afterFail |-> FALSE,                                   \* a statement outside finalize began after that
     dead |-> {},                                           \* active loops a break statement asked to end
     brkT |-> -1,                                           \* the loop the latest such break targets
     contT |-> -1,                                          \* the loop a pending continue statement targets
     locals |-> {},                                         \* names first assigned inside a requested target
     visits |-> <<>>,                                       \* index values the latest outermost loop ran its body with
     adds |-> <<>>,                                         \* the calls of AddTarget made so far: file, name, error
     toks |-> <<>>,                                         \* what the calls of Scan returned so far, with the mode of each
     incl |-> <<>>,                                         \* the files each file given to the parser includes, in order
     inits |-> <<>>,                                        \* the files the parser began to parse, in order
     evals |-> <<>>,                                        \* what Evaluate returned for a parsed expression, with its log
     gets |-> <<>>,                                         \* the latest call of GetVariable: name, scope chain, what it returned
     prev |-> <<>>,                                         \* how the previous call of ExecuteWithTarget on this cook ended
     branches |-> <<>>,                                     \* the branch each if statement of a run of ExecuteWithTarget took, in order
     resolved |-> <<>>,                                     \* the latest call: its name and what it was resolved to
     op |-> <<>>,                                           \* the latest expression evaluated on its own: node, context before, result
     views |-> <<>>,                                        \* for each variable assigned a transformation: the variable transformed, the function
     steps |-> 0,                                           \* statements evaluated on their own so far
     made |-> <<>>,                                         \* for each variable created by  b = a[i] : the node a[i]
     finals |-> <<>>,                                       \* what the index variable held when each body of the latest outermost loop ended
     returns |-> <<>>]                                      \* the values of the return statements evaluated so far, in order

\* the loops being evaluated, outermost first, as positions of the stack
LoopFrames == {k \in 1..Len(stack) : stack[k].f = "for"}
NumLoops == Cardinality(LoopFrames)
\* nesting depth (0 for the outermost) of the loop whose frame is at position k
Depth(k) == Cardinality({j \in LoopFrames : j <= k}) - 1
\* the loop a break or continue statement with this label is about: the nearest
\* enclosing loop carrying the label, the innermost loop for the empty label; -1 if none
StmtTarget(label) ==
    LET C == {Depth(k) : k \in {j \in LoopFrames : label = "" \/ stack[j].node.label = label}}
    IN  IF C = {} THEN -1 ELSE CHOOSE d \in C : \A e \in C : e <= d

\* a statement begins
StmtBegin(o) == [o EXCEPT !.afterFail = @ \/ (o.firstErr # "" /\ ~InFinalize)]
\* a statement returned err
StmtErr(o, err) ==
    [o EXCEPT !.firstErr = IF @ = "" /\ err # Nil /\ ~InFinalize THEN err ELSE @]
Log(o, ev) == [o EXCEPT !.log = Append(@, ev)]

-----------------------------------------------------------------------------
(* Statements *)

\* AssignStatement.Evaluate for Op ASSIGN and ADD_ASSIGN, Ident target, INTEGER value
\* (a STRING value for ASSIGN where the statement names the kind)
AssignEval(c, s) ==
    IF s.aop = "="
    THEN [ctx |-> CtxSet(c, s.name, IF "kind" \in DOMAIN s THEN [k |-> s.kind, v |-> s.val]
                                    ELSE IntVal(s.val)),
          err |-> Nil]
    ELSE LET v == CtxGet(c, s.name)
         IN  IF v = NilVal THEN [ctx |-> c, err |-> ErrNotExist]
             ELSE [ctx |-> CtxSet(c, s.name, IntVal(v.v + s.val)), err |-> Nil]

AssignStatement ==
    /\ AtStmt /\ Stmt.op = "assign"
    /\ UNCHANGED <<scanner, parser, env, heap>>
    /\ LET s == Stmt
           r == AssignEval(ctx, s)
           fresh == s.aop = "=" /\ CtxGet(ctx, s.name) = NilVal /\ InRequested /\ Len(stack) = 3
       IN  /\ ctx' = r.ctx
           /\ ret' = Ret(r.err)
           /\ obs' = [StmtErr(StmtBegin(obs), r.err) EXCEPT
                        !.locals = IF fresh THEN @ \cup {s.name} ELSE @]
    /\ UNCHANGED <<prog, names, pargs, nid, stack, result>>

\* BreakContinueStatement.Evaluate
BreakContinueStatement ==
    /\ AtStmt /\ Stmt.op \in {"break", "continue"}
    /\ UNCHANGED <<scanner, parser, env, heap>>
    /\ LET s == Stmt
           t == StmtTarget(s.label)
           o == StmtBegin(obs)
       IN  /\ ctx' = IF s.op = "break" THEN DoBreak(ctx, s.label) ELSE DoContinue(ctx, s.label)
           /\ obs' = IF t < 0 THEN o
                     ELSE IF s.op = "break"
                     THEN [o EXCEPT !.dead = @ \cup (t..(NumLoops - 1)), !.brkT = t]
                     ELSE [o EXCEPT !.contT = t]
    /\ ret' = Ret(Nil)
    /\ UNCHANGED <<prog, names, pargs, nid, stack, result>>

\* ReturnStatement.Evaluate: the value of X is handed to SetReturnValue and nil is
\* returned
ReturnStatement ==
    /\ AtStmt /\ Stmt.op = "return"
    /\ UNCHANGED <<scanner, parser, env, heap>>
    /\ ctx' = SetReturnValue(ctx, IntVal(Stmt.val))
    /\ ret' = Ret(Nil)
    /\ obs' = [StmtBegin(obs) EXCEPT !.returns = Append(@, IntVal(Stmt.val))]
    /\ UNCHANGED <<prog, names, pargs, nid, stack, result>>

\* the blocks an IfStatement may end up evaluating, over all values of its conditions
RECURSIVE IfOutcomes(_)
IfOutcomes(s) ==
    {[taken |-> TRUE, stmts |-> s.then]} \cup
    (IF Len(s.else) = 0 THEN {[taken |-> FALSE, stmts |-> <<>>]}
     ELSE IF s.else[1] = "if" THEN IfOutcomes(s.else[2])
     ELSE {[taken |-> TRUE, stmts |-> s.else[2]]})

\* IfStatement.Evaluate / ElseStatement.Evaluate: the branch taken is evaluated in
\* tail position, so its result goes to the enclosing block as it is
IfStatement ==
    /\ AtStmt /\ Stmt.op = "if"
    /\ UNCHANGED <<scanner, parser, env, heap>>
    /\ \E b \in IfOutcomes(Stmt) :
          /\ IF b.taken
             THEN stack' = Push(BlockFrame(b.stmts)) /\ ret' = NoRet
             ELSE stack' = stack /\ ret' = Ret(Nil)
          /\ obs' = [StmtBegin(obs) EXCEPT
                       !.branches = IF stack[1].f = "exec" THEN Append(@, b) ELSE @]
    /\ UNCHANGED <<prog, names, pargs, ctx, nid, result>>

\* whether the deferred finalize loop has been registered when the body returns an
\* error out of phase pc
Deferred(pc) == pc \notin {"top", "init"}

\* the frames whose deferred ExitBlock runs while a panic unwinds the stack
DeferFrames == {k \in 1..Len(stack) : stack[k].f \in {"for", "target", "fn"}}

\* a panic inside a statement: every deferred ExitBlock runs, then the deferred
\* finalize loop if ExecuteWithTarget has registered it, and the process crashes
Panic ==
    /\ ctx' = [ctx EXCEPT !.scope = SubSeq(@, 1, Len(@) - Cardinality(DeferFrames)),
                          !.loopsLabel = <<>>, !.loops = <<>>]
    /\ ret' = NoRet
    /\ IF stack[1].f = "exec" /\ Deferred(stack[1].pc) /\ stack[1].pc # "final"
       THEN /\ stack' = <<[stack[1] EXCEPT !.pc = "final", !.i = 1, !.err = "panic",
                                           !.panicking = TRUE]>>
            /\ result' = result
       ELSE /\ stack' = <<>>
            /\ result' = "panic"

\* ForStatement.Evaluate, Range branch: evaluate the interval and enter the loop; a
\* []float64 that has not 3 elements fails the type assertion rg.([]int64)
ForStatement ==
    /\ AtStmt /\ Stmt.op = "for"
    /\ UNCHANGED <<scanner, parser, env, heap>>
    /\ LET s == Stmt
           rg == IntervalEvaluate(s.Range)
       IN  IF IntervalKind(s.Range) = "Float64" /\ Len(rg) # 3
           THEN /\ Panic
                /\ nid' = nid
                /\ obs' = [StmtBegin(obs) EXCEPT !.mainErr = IF @ = "" THEN "panic" ELSE @]
           ELSE IF Len(rg) # 3
           THEN /\ ret' = RetFrom(Nil, "for", In(ctx))
                /\ obs' = [StmtBegin(obs) EXCEPT !.visits = IF NumLoops = 0 THEN <<>> ELSE @,
                                                  !.finals = IF NumLoops = 0 THEN <<>> ELSE @]
                /\ UNCHANGED <<ctx, nid, stack, result>>
           ELSE /\ ctx' = EnterBlock(ctx, nid, TRUE, s.label)
                /\ nid' = nid + 1
                /\ stack' = Push(ForFrame(s, EnterIndex(ctx, TRUE), Len(ctx.scope) + 1, rg, In(ctx)))
                /\ ret' = NoRet
                /\ result' = result
                /\ obs' = [StmtBegin(obs) EXCEPT !.visits = IF NumLoops = 0 THEN <<>> ELSE @,
                                                  !.finals = IF NumLoops = 0 THEN <<>> ELSE @]
    /\ UNCHANGED <<prog, names, pargs>>

\* the loop condition of the for frame fr
IterCond(fr) == IF fr.down THEN fr.i >= fr.end ELSE fr.i <= fr.end

\* history after the loop at nesting depth d has exited
ExitObs(o, d) ==
    [o EXCEPT !.dead = @ \ {d},
              !.brkT = IF @ = d THEN -1 ELSE @,
              !.contT = IF @ = d THEN -1 ELSE @]

\* ForStatement.Evaluate returns err: the deferred ExitBlock(lid) runs; o is the
\* history so far
ForReturnObs(fr, err, o) ==
    /\ ctx' = ExitBlock(ctx, fr.lid)
    /\ stack' = Pop
    /\ ret' = [RetFrom(err, "for", fr.in) EXCEPT
                 !.broke = (err = Nil /\ NumLoops - 1 = obs.brkT)]
    /\ obs' = ExitObs(o, NumLoops - 1)

ForReturn(fr, err) == ForReturnObs(fr, err, obs)

\* the loop counter of a loop whose body left iv in the index variable, ignoring iv
NextIndexFromCounter(fr, iv) == IF fr.down THEN fr.i - fr.step ELSE fr.i + fr.step

\* i = ni.(int64) and the post statement i += step or i -= step
NextIndex(fr, iv) == IF fr.down THEN iv.v - fr.step ELSE iv.v + fr.step

\* ForStatement.Evaluate: the loop header; sets the index variable and runs the body
ForIterate ==
    /\ stack # <<>> /\ Top.f = "for" /\ ~ret.set
    /\ UNCHANGED <<scanner, parser, env, heap>>
    /\ LET fr == Top
       IN  IF IterCond(fr)
           THEN /\ ctx' = ScopeSet(ctx, fr.sd, fr.node.I, [k |-> fr.kind, v |-> fr.i])
                /\ stack' = Push(BlockFrame(fr.node.Insts))
                /\ ret' = NoRet
                /\ obs' = [obs EXCEPT !.visits = IF NumLoops = 1 THEN Append(@, fr.i) ELSE @]
           ELSE ForReturn(fr, Nil)
    /\ UNCHANGED <<prog, names, pargs, nid, result>>

\* ForStatement.executeInsts after the body, and the loop's  err != nil || nb  test
ForExecuteInsts ==
    /\ stack # <<>> /\ Top.f = "for" /\ ret.set
    /\ UNCHANGED <<scanner, parser, env, heap>>
    /\ LET fr == Top
           sb == ShouldBreak(ctx, TRUE)
           c1 == IF sb THEN ctx ELSE ResetBreakContinue(ctx)
           iv == CtxGet(c1, fr.node.I)
           o == IF NumLoops = 1 THEN [obs EXCEPT !.finals = Append(@, iv)] ELSE obs
       IN  IF ret.err # Nil THEN ForReturn(fr, ret.err)
           ELSE IF iv.k # fr.kind THEN ForReturnObs(fr, ErrKind, o)
           ELSE IF sb THEN ForReturnObs(fr, Nil, o)
           ELSE /\ ctx' = c1
                /\ stack' = SetTop([fr EXCEPT !.i = NextIndex(fr, iv)])
                /\ ret' = NoRet
                /\ obs' = [o EXCEPT !.contT = IF @ = NumLoops - 1 THEN -1 ELSE @]
    /\ UNCHANGED <<prog, names, pargs, nid, result>>

\* BlockStatement.Evaluate after a statement returned
BlockResume ==
    /\ stack # <<>> /\ Top.f = "block" /\ ret.set
    /\ UNCHANGED <<scanner, parser, env, heap>>
    /\ IF ret.err # Nil
       THEN stack' = Pop /\ ret' = Ret(ret.err)
       ELSE IF ShouldBreak(ctx, FALSE)
       THEN stack' = Pop /\ ret' = Ret(Nil)
       ELSE stack' = SetTop([Top EXCEPT !.i = @ + 1]) /\ ret' = NoRet
    /\ UNCHANGED <<prog, names, pargs, ctx, nid, result, obs>>

\* BlockStatement.Evaluate after its last statement
BlockEnd ==
    /\ stack # <<>> /\ Top.f = "block" /\ ~ret.set /\ Top.i > Len(Top.stmts)
    /\ UNCHANGED <<scanner, parser, env, heap>>
    /\ stack' = Pop
    /\ ret' = Ret(Nil)
    /\ UNCHANGED <<prog, names, pargs, ctx, nid, result, obs>>

-----------------------------------------------------------------------------
(* Targets, functions and calls *)

ArgNames == <<"1", "2", "3">>

\* scope.SetVariable(strconv.Itoa(i+1), ...) for each argument, on the scope at d
RECURSIVE BindNumbered(_, _, _, _)
BindNumbered(c, d, args, i) ==
    IF i > Len(args) THEN c
    ELSE BindNumbered(ScopeSet(c, d, ArgNames[i], IntVal(args[i])), d, args, i + 1)

\* Target.Execute up to the evaluation of its block: EnterBlock, then "1".."n" and "0"
TargetEnter(c, id, args) ==
    LET c1 == EnterBlock(c, id, FALSE, "")
        d == Len(c1.scope)
    IN  ScopeSet(BindNumbered(c1, d, args, 1), d, "0", IntVal(Len(args)))

\* Target.Execute on a nil *Target: EnterBlock and the bindings happen, t.Insts then
\* panics and the deferred ExitBlock(-1) runs while the panic unwinds
TargetExecuteNil(c, id) == ExitBlock(TargetEnter(c, id, <<>>), -1)

\* what Call.Evaluate returns after t.Execute(ctx, args) returned err
CallTargetResult(err) == Nil

\* Function.internalExecute binding argument i to parameter i, in order, on the scope at d
RECURSIVE BindParams(_, _, _, _, _)
BindParams(c, d, params, args, i) ==
    IF i > Len(params) THEN c
    ELSE BindParams(ScopeSet(c, d, params[i], IntVal(args[i])), d, params, args, i + 1)

\* Function.internalExecute up to the evaluation of its block
FunctionEnter(c, id, fn, args) ==
    LET c1 == EnterBlock(c, id, FALSE, "")
    IN  BindParams(c1, Len(c1.scope), fn.Args, args, 1)

\* the names the built-in registry holds among those the programs explored call
\* (log.go registers print)
FuncStore == {"print"}

\* xContext.GetCommand: whether function.GetFunction(name) is not nil
GetCommand(name) == name \in FuncStore

\* xContext.GetFunction: whether c.fns[name] is not nil
GetFunction(p, name) == name \in DOMAIN p.fns

\* a variant of Resolve that tries the declared functions first and the targets last
ResolveFunctionFirst(p, name) ==
    IF GetFunction(p, name) THEN "function"
    ELSE IF GetCommand(name) THEN "command"
    ELSE IF GetTarget(p, name) # 0 THEN "target"
    ELSE "none"

\* what Call.Evaluate of Kind AT invokes for the name: the tests of its three lookups
Resolve(p, name) ==
    IF GetTarget(p, name) # 0 THEN "target"
    ELSE IF GetCommand(name) THEN "command"
    ELSE IF GetFunction(p, name) THEN "function"
    ELSE "none"

\* the call resolved the name to via
Resolved(o, name, via) == [o EXCEPT !.resolved = <<[name |-> name, via |-> via]>>]

\* Call.Evaluate for Kind AT: a target first, then a built-in command, then a declared
\* function (print without -e writes its arguments and returns nil, nil)
CallEvaluate ==
    /\ AtStmt /\ Stmt.op = "call"
    /\ UNCHANGED <<scanner, parser, env, heap>>
    /\ LET s == Stmt
           t == GetTarget(prog, s.name)
           via == Resolve(prog, s.name)
       IN  IF via = "target"
           THEN /\ ctx' = TargetEnter(ctx, nid, s.args)
                /\ nid' = nid + 1
                /\ stack' = Push(TargetFrame("call", In(ctx))) \o
                                <<BlockFrame(prog.targetIndexes[t].Insts)>>
                /\ ret' = NoRet
                /\ obs' = Resolved(StmtBegin(obs), s.name, via)
           ELSE IF via = "command"
           THEN /\ ret' = Ret(Nil)
                /\ obs' = Resolved(StmtBegin(obs), s.name, via)
                /\ UNCHANGED <<ctx, nid, stack>>
           ELSE IF via = "none"
           THEN /\ ret' = Ret(ErrNoTarget)
                /\ obs' = Resolved(StmtErr(StmtBegin(obs), ErrNoTarget), s.name, via)
                /\ UNCHANGED <<ctx, nid, stack>>
           ELSE IF Len(s.args) # Len(prog.fns[s.name].Args)
           THEN /\ ret' = Ret(ErrArgs)
                /\ obs' = Resolved(StmtErr(StmtBegin(obs), ErrArgs), s.name, via)
                /\ UNCHANGED <<ctx, nid, stack>>
           ELSE LET fn == prog.fns[s.name]
                    before == [n \in {fn.Args[j] : j \in 1..Len(fn.Args)} |-> CtxGet(ctx, n)]
                IN  /\ ctx' = FunctionEnter(ctx, nid, fn, s.args)
                    /\ nid' = nid + 1
                    /\ stack' = Push(FnFrame(fn.Args, before, In(ctx))) \o <<BlockFrame(fn.Insts)>>
                    /\ ret' = NoRet
                    /\ obs' = Resolved(StmtBegin(obs), s.name, via)
    /\ UNCHANGED <<prog, names, pargs, result>>

\* Target.Execute returns: the deferred ExitBlock(-1) runs
TargetReturn ==
    /\ stack # <<>> /\ Top.f = "target" /\ ret.set
    /\ UNCHANGED <<scanner, parser, env, heap>>
    /\ ctx' = ExitBlock(ctx, -1)
    /\ stack' = Pop
    /\ ret' = RetFrom(IF Top.via = "call" THEN CallTargetResult(ret.err) ELSE ret.err,
                      "target", Top.in)
    /\ UNCHANGED <<prog, names, pargs, nid, result, obs>>

\* Function.internalExecute returns: without an error the value is what GetReturnValue
\* gives on the scope of the function; the deferred ExitBlock(-1) runs
FunctionReturn ==
    /\ stack # <<>> /\ Top.f = "fn" /\ ret.set
    /\ UNCHANGED <<scanner, parser, env, heap>>
    /\ ctx' = ExitBlock(ctx, -1)
    /\ stack' = Pop
    /\ ret' = [RetFrom(ret.err, "fn", Top.in) EXCEPT
                 !.before = Top.before,
                 !.val = IF ret.err = Nil THEN GetReturnValue(ctx) ELSE NilVal]
    /\ UNCHANGED <<prog, names, pargs, nid, result, obs>>

-----------------------------------------------------------------------------
(* cook.ExecuteWithTarget *)

\* c.ctx.scope.SetVariable(name, v, ...) for every pair of pargs (the order of a Go map
\* range is unspecified; the names are distinct, so every order gives the same scope)
\* a variant of BindArgs that binds into the context the cook already holds
BindArgsKeepsContext(c, pa, S) ==
    IF DOMAIN pa = {} THEN ctx
    ELSE [ctx EXCEPT !.scope[1].vars =
              [n \in DOMAIN ctx.scope[1].vars \cup DOMAIN pa |->
                  IF n \in DOMAIN pa THEN pa[n] ELSE ctx.scope[1].vars[n]]]

RECURSIVE BindArgs(_, _, _)
BindArgs(c, pa, S) ==
    IF S = {} THEN c
    ELSE LET n == CHOOSE n \in S : TRUE
         IN  BindArgs(ScopeSet(c, 1, n, pa[n]), pa, S \ {n})

\* a variant of RequestedName that walks the names from the last to the first
RequestedNameReversed(ns, i) == ns[Len(ns) + 1 - i]

\* the i-th name of  for _, name := range names
RequestedName(ns, i) == ns[i]

\* a variant of FinalizeResult in which a finalize error replaces the result
FinalizeResultOverrides(err, ferr) == IF ferr # Nil THEN ferr ELSE err

\* the value the named result err has once a finalize target returned ferr
FinalizeResult(err, ferr) == err

\* the finalize target the deferred loop turns to after target i returned ferr
FinalizeNext(i, ferr) == i + 1

\* the body of ExecuteWithTarget ends (return err, or a panic) at phase Top.pc
ExecBodyEnds(err, panicking, c) ==
    /\ ctx' = c
    /\ ret' = NoRet
    /\ IF Deferred(Top.pc)
       THEN /\ stack' = SetTop([Top EXCEPT !.pc = "final", !.i = 1, !.err = err,
                                           !.panicking = panicking])
            /\ result' = result
       ELSE /\ stack' = <<>>
            /\ result' = err

ExecuteWithTarget ==
    /\ result = "idle"
    /\ UNCHANGED <<scanner, parser, env, heap>>
    /\ ctx' = BindArgs(renewContext, pargs, DOMAIN pargs)
    /\ nid' = 1
    /\ stack' = <<ExecFrame, BlockFrame(prog.Insts)>>
    /\ ret' = NoRet
    /\ result' = "running"
    /\ obs' = Log(Log(obs, Event("bind", "bind", "", 0)), Event("begin", "top", "", 0))
    /\ UNCHANGED <<prog, names, pargs>>

\* line 195: c.Insts.Evaluate returned
ExecTopDone ==
    /\ AtExec("top") /\ ret.set
    /\ UNCHANGED <<scanner, parser, env, heap>>
    /\ IF ret.err # Nil
       THEN /\ ExecBodyEnds(ret.err, FALSE, ctx)
            /\ obs' = [obs EXCEPT !.mainErr = ret.err]
       ELSE /\ stack' = SetTop([Top EXCEPT !.pc = "init", !.i = 1])
            /\ ret' = NoRet
            /\ obs' = Log(obs, Event("end", "top", "", 0))
            /\ UNCHANGED <<ctx, result>>
    /\ UNCHANGED <<prog, names, pargs, nid>>

\* lines 200-214: the next initialize target, or the defer statement and the choice
\* between the "all" branch and the named targets
ExecInitialize ==
    /\ AtExec("init") /\ ~ret.set
    /\ UNCHANGED <<scanner, parser, env, heap>>
    /\ IF Top.i <= Len(prog.initializeTargets)
       THEN /\ ctx' = TargetEnter(ctx, nid, <<>>)
            /\ nid' = nid + 1
            /\ stack' = Push(TargetFrame("exec", In(ctx))) \o
                            <<BlockFrame(prog.initializeTargets[Top.i].Insts)>>
            /\ obs' = Log(obs, Event("begin", "init", "", Top.i))
       ELSE /\ stack' = SetTop([Top EXCEPT
                                  !.pc = IF Len(names) = 1 /\ names[1] = TargetAll
                                         THEN "all" ELSE "names",
                                  !.i = 1])
            /\ UNCHANGED <<ctx, nid, obs>>
    /\ ret' = NoRet
    /\ UNCHANGED <<prog, names, pargs, result>>

\* line 202: init.Execute returned
ExecInitDone ==
    /\ AtExec("init") /\ ret.set
    /\ UNCHANGED <<scanner, parser, env, heap>>
    /\ IF ret.err # Nil
       THEN /\ ExecBodyEnds(ret.err, FALSE, ctx)
            /\ obs' = [obs EXCEPT !.mainErr = ret.err]
       ELSE /\ stack' = SetTop([Top EXCEPT !.i = @ + 1])
            /\ ret' = NoRet
            /\ obs' = Log(obs, Event("end", "init", "", Top.i))
            /\ UNCHANGED <<ctx, result>>
    /\ UNCHANGED <<prog, names, pargs, nid>>

\* lines 237-249: the next requested name
ExecNames ==
    /\ AtExec("names") /\ ~ret.set
    /\ UNCHANGED <<scanner, parser, env, heap>>
    /\ IF Top.i > Len(names)
       THEN /\ ExecBodyEnds(Nil, FALSE, ctx)
            /\ obs' = [obs EXCEPT !.mainErr = Nil]
            /\ nid' = nid
       ELSE IF RequestedName(names, Top.i) = TargetAll
       THEN /\ stack' = SetTop([Top EXCEPT !.i = @ + 1])
            /\ ret' = NoRet
            /\ UNCHANGED <<ctx, nid, result, obs>>
       ELSE IF GetTarget(prog, RequestedName(names, Top.i)) = 0
       THEN /\ ExecBodyEnds("panic", TRUE,
                            TargetExecuteNil(EnterBlock(ctx, nid, FALSE, ""), nid + 1))
            /\ obs' = [obs EXCEPT !.mainErr = "panic"]
            /\ nid' = nid + 2
       ELSE /\ ctx' = TargetEnter(EnterBlock(ctx, nid, FALSE, ""), nid + 1, <<>>)
            /\ nid' = nid + 2
            /\ stack' = Push(TargetFrame("exec", In(EnterBlock(ctx, nid, FALSE, "")))) \o
                 <<BlockFrame(prog.targetIndexes[GetTarget(prog, RequestedName(names, Top.i))].Insts)>>
            /\ ret' = NoRet
            /\ result' = result
            /\ obs' = Log(obs, Event("begin", "target", RequestedName(names, Top.i), 0))
    /\ UNCHANGED <<prog, names, pargs>>

\* lines 243-246: the requested target returned
ExecNamesDone ==
    /\ AtExec("names") /\ ret.set
    /\ UNCHANGED <<scanner, parser, env, heap>>
    /\ IF ret.err # Nil
       THEN /\ ExecBodyEnds(ret.err, FALSE, ctx)
            /\ obs' = [obs EXCEPT !.mainErr = ret.err]
       ELSE /\ ctx' = ExitBlock(ctx, -1)
            /\ stack' = SetTop([Top EXCEPT !.i = @ + 1])
            /\ ret' = NoRet
            /\ result' = result
            /\ obs' = Log(obs, Event("end", "target", RequestedName(names, Top.i), 0))
    /\ UNCHANGED <<prog, names, pargs, nid>>

\* lines 218-233: the only requested name is "all"
ExecAll ==
    /\ AtExec("all") /\ ~ret.set
    /\ UNCHANGED <<scanner, parser, env, heap>>
    /\ LET c1 == EnterBlock(ctx, nid, FALSE, "")
       IN  IF ~prog.targetAll.defined
           THEN /\ ExecBodyEnds(ErrNoAll, FALSE, c1)
                /\ obs' = [obs EXCEPT !.mainErr = ErrNoAll]
                /\ nid' = nid + 1
           ELSE IF prog.targetAll.all
           THEN /\ ctx' = c1
                /\ nid' = nid + 1
                /\ stack' = SetTop([Top EXCEPT !.pc = "alleach", !.i = 1])
                /\ ret' = NoRet
                /\ UNCHANGED <<result, obs>>
           ELSE /\ ctx' = TargetEnter(c1, nid + 1, <<>>)
                /\ nid' = nid + 2
                /\ stack' = SetTop([Top EXCEPT !.pc = "allone"]) \o
                            <<TargetFrame("exec", In(c1)), BlockFrame(prog.targetAll.Insts)>>
                /\ ret' = NoRet
                /\ result' = result
                /\ obs' = Log(obs, Event("begin", "target", TargetAll, 0))
    /\ UNCHANGED <<prog, names, pargs>>

\* lines 224-230 and 234: the next declared target of "all: *"
ExecAllEach ==
    /\ AtExec("alleach") /\ ~ret.set
    /\ UNCHANGED <<scanner, parser, env, heap>>
    /\ IF Top.i <= Len(prog.targetIndexes)
       THEN /\ ctx' = TargetEnter(EnterBlock(ctx, nid, FALSE, ""), nid + 1, <<>>)
            /\ nid' = nid + 2
            /\ stack' = Push(TargetFrame("exec", In(EnterBlock(ctx, nid, FALSE, "")))) \o
                            <<BlockFrame(prog.targetIndexes[Top.i].Insts)>>
            /\ ret' = NoRet
            /\ result' = result
            /\ obs' = Log(obs, Event("begin", "target", prog.targetIndexes[Top.i].name, 0))
       ELSE /\ ExecBodyEnds(Nil, FALSE, ExitBlock(ctx, -1))
            /\ obs' = [obs EXCEPT !.mainErr = Nil]
            /\ nid' = nid
    /\ UNCHANGED <<prog, names, pargs>>

\* lines 226-229: a declared target of "all: *" returned
ExecAllEachDone ==
    /\ AtExec("alleach") /\ ret.set
    /\ UNCHANGED <<scanner, parser, env, heap>>
    /\ IF ret.err # Nil
       THEN /\ ExecBodyEnds(ret.err, FALSE, ctx)
            /\ obs' = [obs EXCEPT !.mainErr = ret.err]
       ELSE /\ ctx' = ExitBlock(ctx, -1)
            /\ stack' = SetTop([Top EXCEPT !.i = @ + 1])
            /\ ret' = NoRet
            /\ result' = result
            /\ obs' = Log(obs, Event("end", "target", prog.targetIndexes[Top.i].name, 0))
    /\ UNCHANGED <<prog, names, pargs, nid>>

\* lines 231-234: the body of target all returned
ExecAllOneDone ==
    /\ AtExec("allone") /\ ret.set
    /\ UNCHANGED <<scanner, parser, env, heap>>
    /\ IF ret.err # Nil
       THEN /\ ExecBodyEnds(ret.err, FALSE, ctx)
            /\ obs' = [obs EXCEPT !.mainErr = ret.err]
       ELSE /\ ExecBodyEnds(Nil, FALSE, ExitBlock(ctx, -1))
            /\ obs' = Log([obs EXCEPT !.mainErr = Nil], Event("end", "target", TargetAll, 0))
    /\ UNCHANGED <<prog, names, pargs, nid>>

\* lines 207-214, the deferred function: the next finalize target, or the end of the call
ExecFinalize ==
    /\ AtExec("final") /\ ~ret.set
    /\ UNCHANGED <<scanner, parser, env, heap>>
    /\ IF Top.i <= Len(prog.finalizeTargets)
       THEN /\ ctx' = TargetEnter(ctx, nid, <<>>)
            /\ nid' = nid + 1
            /\ stack' = Push(TargetFrame("exec", In(ctx))) \o
                            <<BlockFrame(prog.finalizeTargets[Top.i].Insts)>>
            /\ result' = result
            /\ obs' = [Log(obs, Event("begin", "final", "", Top.i)) EXCEPT
                         !.finRuns[Top.i] = @ + 1]
       ELSE /\ stack' = <<>>
            /\ result' = IF Top.panicking THEN "panic" ELSE Top.err
            /\ UNCHANGED <<ctx, nid, obs>>
    /\ ret' = NoRet
    /\ UNCHANGED <<prog, names, pargs>>

\* lines 209-212: final.Execute returned ferr
ExecFinalDone ==
    /\ AtExec("final") /\ ret.set
    /\ UNCHANGED <<scanner, parser, env, heap>>
    /\ stack' = SetTop([Top EXCEPT !.i = FinalizeNext(@, ret.err),
                                   !.err = FinalizeResult(@, ret.err)])
    /\ ret' = NoRet
    /\ obs' = [Log(obs, Event("end", "final", "", Top.i)) EXCEPT
                 !.finErr = @ \/ ret.err # Nil]
    /\ UNCHANGED <<prog, names, pargs, ctx, nid, result>>

-----------------------------------------------------------------------------
(* cook.AddTarget *)

ErrDefined == "defined initialize target, previously exit"
ErrDeclared == "target has been declare"
ErrExist == "target already exist"

\* NewCook
NewCook ==
    [Insts |-> <<>>, initializeTargets |-> <<>>, finalizeTargets |-> <<>>,
     targetIndexes |-> <<>>, targets |-> <<>>,
     targetAll |-> [defined |-> FALSE, all |-> FALSE, Insts |-> <<>>],
     fns |-> <<>>]

\* sort.Search(n, f) with f(i) = t[i].File.Name() >= fname, indexes from 0: the
\* binary search between lo and hi
RECURSIVE Search(_, _, _, _)
Search(t, fname, lo, hi) ==
    IF lo >= hi THEN lo
    ELSE LET h == (lo + hi) \div 2
         IN  IF ~(t[h + 1].File >= fname)
             THEN Search(t, fname, h + 1, hi)
             ELSE Search(t, fname, lo, h)

\* Targets.notExisted: the error, Nil when the search finds no target of that file
notExisted(t, fname) ==
    LET i == Search(t, fname, 0, Len(t))
    IN  IF i < Len(t) /\ t[i + 1].File = fname THEN ErrDefined ELSE Nil

\* a variant of AddTarget that puts an ordinary target before those declared earlier
AddTargetFront(c, base, name) ==
    IF name = TargetInitialize
    THEN [cook |-> [c EXCEPT !.initializeTargets =
                                 Append(@, [name |-> name, File |-> base.File,
                                            Insts |-> base.Insts])],
          err |-> Nil]
    ELSE IF name = TargetFinalize
    THEN [cook |-> [c EXCEPT !.finalizeTargets =
                                 Append(@, [name |-> name, File |-> base.File,
                                            Insts |-> base.Insts])],
          err |-> Nil]
    ELSE IF name = TargetAll
    THEN [cook |-> [c EXCEPT !.targetAll = [defined |-> TRUE, all |-> FALSE,
                                             Insts |-> base.Insts]],
          err |-> Nil]
    ELSE [cook |-> [c EXCEPT !.targetIndexes =
                                 <<[name |-> name, File |-> base.File, Insts |-> base.Insts]>> \o @,
                             !.targets = Bind(@, name, 0)],
          err |-> Nil]

\* cook.AddTarget; base carries the file of the declaration and the statements the
\* parser then appends to the block of the new target
AddTarget(c, base, name) ==
    LET t == [name |-> name, File |-> base.File, Insts |-> base.Insts]
    IN  IF name = TargetInitialize
        THEN IF notExisted(c.initializeTargets, base.File) # Nil
             THEN [cook |-> c, err |-> notExisted(c.initializeTargets, base.File)]
             ELSE [cook |-> [c EXCEPT !.initializeTargets = Append(@, t)], err |-> Nil]
        ELSE IF name = TargetFinalize
        THEN IF notExisted(c.finalizeTargets, base.File) # Nil
             THEN [cook |-> c, err |-> notExisted(c.finalizeTargets, base.File)]
             ELSE [cook |-> [c EXCEPT !.finalizeTargets = Append(@, t)], err |-> Nil]
        ELSE IF name = TargetAll
        THEN IF c.targetAll.defined
             THEN [cook |-> c, err |-> ErrDeclared]
             ELSE [cook |-> [c EXCEPT !.targetAll = [defined |-> TRUE, all |-> FALSE,
                                                      Insts |-> base.Insts]],
                   err |-> Nil]
        ELSE IF name \in DOMAIN c.targets
        THEN [cook |-> c, err |-> ErrExist]
        ELSE [cook |-> [c EXCEPT !.targetIndexes = Append(@, t),
                                 !.targets = Bind(@, name, Len(c.targetIndexes))],
              err |-> Nil]

\* Target.SetCallAll on the target all
SetCallAll(c) == [c EXCEPT !.targetAll.all = TRUE]

-----------------------------------------------------------------------------
(* The programs explored *)

\* `undef` is assigned nowhere, so  undef += 1  fails with "variable does not exist";
\* under an if it fails for some values of the condition and not for others
MayFail == If(<<AddAssign("undef", 1)>>)

\* for la in (0..MaxIter+1) { for inner in (0..MaxIter+1) { InnerChain; x = 1 }; OuterChain; y = 1 }
InnerChain ==
    IfElseIf(<<Continue("la")>>,
        IfElseIf(<<Break("")>>,
            IfElseIf(<<Continue("")>>, If(<<Break("la")>>))))
OuterChain == IfElseIf(<<Break("")>>, If(<<Continue("la")>>))
NestedLoops(inner) ==
    For("la", "i", 0, FALSE, MaxIter + 1, FALSE,
        <<For(inner, "j", 0, FALSE, MaxIter + 1, FALSE, <<InnerChain, Assign("x", 1)>>),
          OuterChain,
          Assign("y", 1)>>)

\* a loop whose body may break, continue or fail
SmallLoop ==
    For("", "k", 0, TRUE, MaxIter - 1, TRUE,
        <<IfElseIf(<<Break("")>>, If(<<Continue("")>>)), MayFail, Assign("z", 1)>>)

Target(name, stmts) == [name |-> name, Insts |-> stmts]
Function(params, stmts) == [Args |-> params, Insts |-> stmts]

Targets ==
    <<Target("t1", <<Assign("loc", 1), Call("t2", <<5>>), AddAssign("g", 1)>>),
      Target("t2", <<MayFail, Call("f", <<7, 8>>), If(<<Call("nofn", <<>>)>>)>>),
      Target("t3", <<SmallLoop, If(<<Call("f", <<7>>)>>)>>)>>

\* a target declaration of file f, as the parser hands it to AddTarget
Decl(f, t) == [File |-> f, name |-> t.name, Insts |-> t.Insts]

\* the declarations of two Cookfiles, the second included by the first
Declarations ==
    <<Decl(1, Target(TargetInitialize, <<Assign("a", 1)>>)),
      Decl(1, Targets[1]),
      Decl(1, Targets[2]),
      Decl(1, Target(TargetFinalize, <<MayFail, AddAssign("g", 1)>>)),
      Decl(2, Target(TargetInitialize, <<MayFail, Assign("b", 1)>>)),
      Decl(2, Targets[3]),
      Decl(2, Target(TargetFinalize, <<AddAssign("a", 1)>>))>>

\* the cook after AddTarget was called for the declarations ds[i], ds[i+1], ...
RECURSIVE DeclareAll(_, _, _)
DeclareAll(c, ds, i) ==
    IF i > Len(ds) THEN c
    ELSE DeclareAll(AddTarget(c, ds[i], ds[i].name).cook, ds, i + 1)

\* the parsed program; all says whether and how the target all is declared
Program(all) ==
    LET c0 == [NewCook EXCEPT
                 !.Insts = <<Assign("g", 1), MayFail>>,
                 !.fns = [n \in {"f"} |-> Function(<<"g", "q">>, <<Assign("r", 1)>>)]]
        c1 == DeclareAll(c0, Declarations, 1)
        c2 == IF all.defined
              THEN AddTarget(c1, [File |-> 1, Insts |-> all.Insts], TargetAll).cook
              ELSE c1
    IN  IF all.all THEN SetCallAll(c2) ELSE c2

AllTargets ==
    {[defined |-> FALSE, all |-> FALSE, Insts |-> <<>>],
     [defined |-> TRUE, all |-> TRUE, Insts |-> <<>>],
     [defined |-> TRUE, all |-> FALSE, Insts |-> <<Call("t3", <<>>), Call("t1", <<>>)>>]}

Programs == {Program(all) : all \in AllTargets}

NameLists ==
    {<<"t1", "t2">>, <<"t2", "t1">>, <<"t3", "t1">>, <<"t1", "nope", "t3">>,
     <<TargetAll>>, <<"t3", TargetAll, "t2">>}

ArgMaps == {<<>>, [n \in {"INPUT"} |-> IntVal(3)]}

\* a program without targets, for evaluating a block on a fresh context
NoProgram == NewCook

\* blocks of sibling loops
LoopBlocks ==
    {<<NestedLoops(inner), NestedLoops(inner), NestedLoops(inner)>> : inner \in {"lb", "la"}}

\* no scanner and no parser: the program has been parsed already
NoScanner == [src |-> <<>>]
NoParser == [files |-> <<>>]
\* no environment variable is set
NoEnv == <<>>
\* no array and no map has been allocated
NoHeap == <<>>

-----------------------------------------------------------------------------
(* Specifications *)

\* a parsed program, before ExecuteWithTarget is called
Init ==
    /\ prog \in Programs
    /\ names \in NameLists
    /\ pargs \in ArgMaps
    /\ ctx = renewContext
    /\ nid = 1
    /\ stack = <<>>
    /\ ret = NoRet
    /\ result = "idle"
    /\ obs = Obs0(prog)
    /\ scanner = NoScanner
    /\ parser = NoParser
    /\ env = NoEnv
    /\ heap = NoHeap

Evaluate ==
    \/ AssignStatement
    \/ BreakContinueStatement
    \/ IfStatement
    \/ ForStatement
    \/ ForIterate
    \/ ForExecuteInsts
    \/ BlockResume
    \/ BlockEnd

Next ==
    \/ ExecuteWithTarget
    \/ ExecTopDone
    \/ ExecInitialize
    \/ ExecInitDone
    \/ ExecNames
    \/ ExecNamesDone
    \/ ExecAll
    \/ ExecAllEach
    \/ ExecAllEachDone
    \/ ExecAllOneDone
    \/ ExecFinalize
    \/ ExecFinalDone
    \/ CallEvaluate
    \/ TargetReturn
    \/ FunctionReturn
    \/ Evaluate

Spec == Init /\ [][Next]_vars

\* a block of loops evaluated on a fresh context, as BlockStatement.Evaluate(ctx)
InitLoops ==
    /\ prog = NoProgram
    /\ names = <<>>
    /\ pargs = <<>>
    /\ ctx = renewContext
    /\ nid = 1
    /\ \E b \in LoopBlocks : stack = <<BlockFrame(b)>>
    /\ ret = NoRet
    /\ result = "running"
    /\ obs = Obs0(prog)
    /\ scanner = NoScanner
    /\ parser = NoParser
    /\ env = NoEnv
    /\ heap = NoHeap

SpecLoops == InitLoops /\ [][Evaluate]_vars

\* the loops  for i in <interval> { x = 1 }  over integer and over float endpoints
RangeLoops ==
    {For("", "i", a, ai, b, bi, <<Assign("x", 1)>>) :
        a \in 0..MaxEnd, b \in 0..MaxEnd, ai \in BOOLEAN, bi \in BOOLEAN}
    \cup
    {ForFloat("", "i", a, ai, b, bi, <<Assign("x", 1)>>) :
        a \in 0..MaxEnd, b \in 0..MaxEnd, ai \in BOOLEAN, bi \in BOOLEAN}

\* one such loop as the top-level block, evaluated on a fresh context
InitRange ==
    /\ \E l \in RangeLoops : prog = [NewCook EXCEPT !.Insts = <<l>>]
    /\ names = <<>>
    /\ pargs = <<>>
    /\ ctx = renewContext
    /\ nid = 1
    /\ stack = <<BlockFrame(prog.Insts)>>
    /\ ret = NoRet
    /\ result = "running"
    /\ obs = Obs0(prog)
    /\ scanner = NoScanner
    /\ parser = NoParser
    /\ env = NoEnv
    /\ heap = NoHeap

EvaluateRange ==
    \/ AssignStatement
    \/ ForStatement
    \/ ForIterate
    \/ ForExecuteInsts
    \/ BlockResume
    \/ BlockEnd

SpecRange == InitRange /\ [][EvaluateRange]_vars

\* the names the parser declares targets with
AddNames == {TargetInitialize, TargetFinalize, TargetAll, "t1"}
\* the files a declaration has come from so far
AddedFiles == {obs.adds[k].File : k \in DOMAIN obs.adds}

\* an empty cook, as ast.NewCook() hands it to the parser
InitAdd ==
    /\ prog = NewCook
    /\ names = <<>>
    /\ pargs = <<>>
    /\ ctx = renewContext
    /\ nid = 1
    /\ stack = <<>>
    /\ ret = NoRet
    /\ result = "idle"
    /\ obs = Obs0(prog)
    /\ scanner = NoScanner
    /\ parser = NoParser
    /\ env = NoEnv
    /\ heap = NoHeap

\* parser.parseTarget calls AddTarget for a declaration  name:  of the file being
\* parsed; the parser finishes one file before it starts the next, in no fixed order
AddTargetCall ==
    /\ Len(obs.adds) < MaxAdds
    /\ UNCHANGED <<scanner, parser, env, heap>>
    /\ \E f \in 1..NumFiles, n \in AddNames :
        /\ IF obs.adds = <<>> THEN TRUE
           ELSE f = obs.adds[Len(obs.adds)].File \/ f \notin AddedFiles
        /\ LET r == AddTarget(prog, [File |-> f, Insts |-> <<>>], n)
           IN  /\ prog' = r.cook
               /\ result' = r.err
               /\ obs' = [obs EXCEPT !.adds = Append(@, [File |-> f, name |-> n, err |-> r.err])]
    /\ UNCHANGED <<names, pargs, ctx, nid, stack, ret>>

SpecAdd == InitAdd /\ [][AddTargetCall]_vars

-----------------------------------------------------------------------------
(* The scanner (pkg/cook/parser/scanner.go).  The source is a sequence of    *)
(* characters, each a one-character string; offsets count from 0 as in Go.   *)
(* The sources explored are ASCII, without NUL and without carriage return.  *)

NL == "\n"
DQ == "\""
SQ == "'"
BSL == "\\"
\* the back-tick
BQ == "bq"
\* the rune the scanner reads at the end of the source
eof == "eof"
\* the zero rune: no string terminator recorded
NUL == ""

scanNormal == "scanNormal"
scanArgument == "scanArgument"
scanStringITP == "scanStringITP"
scanAllowExpr == "scanAllowExpr"

isMode(s, m) == m \in s.mode

Lower == {"a", "b", "c", "d", "e", "f", "g", "h", "i", "j", "k", "l", "m",
          "n", "o", "p", "q", "r", "s", "t", "u", "v", "w", "x", "y", "z"}
Upper == {"A", "B", "C", "D", "E", "F", "G", "H", "I", "J", "K", "L", "M",
          "N", "O", "P", "Q", "R", "S", "T", "U", "V", "W", "X", "Y", "Z"}
isDecimal(ch) == ch \in {"0", "1", "2", "3", "4", "5", "6", "7", "8", "9"}
isLetter(ch) == ch \in Lower \cup Upper \cup {"_"}
isDigit(ch) == isDecimal(ch)
isSpace(r) == r = " " \/ r = "\t"
isLineFeed(r) == r = NL

\* string(q): the characters of q as one string
RECURSIVE Join(_)
Join(q) == IF q = <<>> THEN "" ELSE q[1] \o Join(Tail(q))
\* string(s.src[from:to])
Str(src, from, to) == Join(SubSeq(src, from + 1, to))

\* the keywords of the language; any other word is an identifier
Keywords ==
    [for |-> "FOR", in |-> "IN", if |-> "IF", else |-> "ELSE", is |-> "IS",
     include |-> "INCLUDE", break |-> "BREAK", continue |-> "CONTINUE",
     return |-> "RETURN", exit |-> "EXIT", delete |-> "DELETE",
     integer |-> "TINTEGER", float |-> "TFLOAT"]
\* token.Lookup
Lookup(lit, tok) == IF lit \in DOMAIN Keywords THEN Keywords[lit] ELSE tok

\* the handler the scanner was given collects the messages
scanError(s, msg) == [s EXCEPT !.errs = Append(@, msg)]

\* scanner.next: read the next character into s.ch
scanner_next(s) ==
    IF s.rdOffset < Len(s.src)
    THEN [s EXCEPT !.offset = s.rdOffset, !.rdOffset = s.rdOffset + 1,
                   !.ch = s.src[s.rdOffset + 1]]
    ELSE [s EXCEPT !.offset = Len(s.src), !.ch = eof]

NewScannerSrc(src) ==
    scanner_next([src |-> src, ch |-> eof, offset |-> -1, rdOffset |-> 0,
                  stringTerminate |-> NUL, mode |-> {scanNormal},
                  prevTok |-> <<"ILLEGAL", "ILLEGAL">>, skipLineFeed |-> FALSE,
                  errs |-> <<>>])

peek(s) == IF s.rdOffset < Len(s.src) THEN s.src[s.rdOffset + 1] ELSE NUL

RECURSIVE skipWhitespace(_)
skipWhitespace(s) ==
    IF (isSpace(s.ch) \/ (s.skipLineFeed /\ isLineFeed(s.ch))) /\ s.ch # eof
    THEN skipWhitespace(scanner_next(s))
    ELSE s

\* scanner.ternary: consume the character when cond holds
ternary(s, cond, t, f) ==
    IF cond THEN [s |-> scanner_next(s), tok |-> t] ELSE [s |-> s, tok |-> f]
\* s.ternary(s.ch == c1, t1, s.ternary(s.ch == c2, t2, f)); the sources explored have
\* no c1 right after c2 here, so the order in which Go evaluates the outer condition
\* and the inner call makes no difference
ternary2(s, c1, t1, c2, t2, f) ==
    IF s.ch = c1 THEN ternary(s, TRUE, t1, f) ELSE ternary(s, s.ch = c2, t2, f)

\* scanner.scanComment, entered with s.ch on the second character of the comment
RECURSIVE lineComment(_)
lineComment(s) == IF s.ch # NL /\ s.ch # eof THEN lineComment(scanner_next(s)) ELSE s
RECURSIVE blockComment(_, _)
blockComment(s, offs) ==
    LET ch == s.ch
        s1 == scanner_next(s)
    IN  IF ch = "*" /\ s1.ch = "/"
        THEN [s |-> scanner_next(s1), lit |-> Str(s.src, offs, scanner_next(s1).offset)]
        ELSE IF ch = eof
        THEN [s |-> scanError(s1, "comment not terminated"), lit |-> ""]
        ELSE blockComment(s1, offs)
scanComment(s) ==
    LET offs == s.offset - 1
    IN  IF s.ch = "/"
        THEN LET s1 == lineComment(scanner_next(s))
             IN  [s |-> s1, lit |-> Str(s.src, offs, s1.offset)]
        ELSE blockComment(scanner_next(s), offs)

\* the number of decimal digits the source has from offset rd on
RECURSIVE Digits(_, _)
Digits(src, rd) ==
    IF rd < Len(src) /\ isDecimal(src[rd + 1]) THEN 1 + Digits(src, rd + 1) ELSE 0
\* scanner.scanDigitOrString: skip the digits that follow s.ch
scanDigitOrString(s) ==
    LET rd == s.rdOffset + Digits(s.src, s.rdOffset)
    IN  IF rd < Len(s.src)
        THEN [s EXCEPT !.offset = rd, !.ch = s.src[rd + 1], !.rdOffset = rd + 1]
        ELSE [s EXCEPT !.offset = rd, !.ch = eof, !.rdOffset = rd]

\* scanner.scanNumber, entered with s.ch on a decimal digit
scanNumber(s) ==
    LET offs == s.offset
        s1 == scanDigitOrString(s)
    IN  IF s1.ch = "."
        THEN IF peek(s1) = "."
             THEN [s |-> s1, tok |-> "INTEGER", lit |-> Str(s.src, offs, s1.offset)]
             ELSE LET s2 == scanDigitOrString(scanner_next(s1))
                  IN  [s |-> s2, tok |-> "FLOAT", lit |-> Str(s.src, offs, s2.offset)]
        ELSE [s |-> s1, tok |-> "INTEGER", lit |-> Str(s.src, offs, s1.offset)]

\* the number of letters, digits and underscores the source has from offset rd on
RECURSIVE IdentChars(_, _)
IdentChars(src, rd) ==
    IF rd < Len(src) /\ (isLetter(src[rd + 1]) \/ isDecimal(src[rd + 1]))
    THEN 1 + IdentChars(src, rd + 1)
    ELSE 0
\* scanner.scanIdentifier, entered with s.ch on a letter
scanIdentifier(s) ==
    LET rd == s.rdOffset + IdentChars(s.src, s.rdOffset)
        s1 == IF s.rdOffset = Len(s.src) THEN scanner_next(s)
              ELSE IF rd < Len(s.src)
              THEN [s EXCEPT !.ch = s.src[rd + 1], !.offset = rd, !.rdOffset = rd + 1]
              ELSE [s EXCEPT !.offset = Len(s.src), !.ch = eof, !.rdOffset = Len(s.src)]
    IN  [s |-> s1, tok |-> "IDENT", lit |-> Str(s.src, s.offset, s1.offset)]

\* scanner.scanEscape, entered with s.ch on the character after the backslash
scanEscape(s, terminate) ==
    IF s.ch \in {SQ, DQ, BQ}
    THEN IF s.ch = terminate THEN scanner_next(s) ELSE s
    ELSE IF s.ch \in {"a", "b", "f", "n", "r", "t", "v", BSL, "$"}
    THEN scanner_next(s)
    ELSE scanError(s, IF s.ch = eof THEN "escape sequence not terminated"
                                    ELSE "unknown escape sequence")

\* scanner.scanRawString: the loop, with the text collected so far
RECURSIVE rawStringLoop(_, _, _)
rawStringLoop(s, tok, text) ==
    LET ch == s.ch
    IN  IF ch = eof
        THEN [s |-> scanError(s, "raw string literal not terminated"), tok |-> tok,
              lit |-> text]
        ELSE IF ch = "$"
        THEN [s |-> [s EXCEPT !.stringTerminate = BQ, !.mode = {scanStringITP}],
              tok |-> "STRING_ITP", lit |-> text]
        ELSE IF ch = BQ
        THEN [s |-> scanner_next(s), tok |-> tok, lit |-> text]
        ELSE rawStringLoop(scanner_next(s), tok, text \o ch)
scanRawString(s, offset) ==
    rawStringLoop(s, IF isMode(s, scanStringITP) THEN "STRING_ITP" ELSE "STRING",
                  Str(s.src, offset, s.offset))

\* scanner.scanString: the loop of a string that ends at the character `terminate`
\* (a quote directly followed by the end of the line would make the bounds of the
\* literal invalid; no source explored has one)
RECURSIVE stringLoop(_, _, _, _)
stringLoop(s, offset, terminate, tok) ==
    LET ch == s.ch
        s1 == scanner_next(s)
    IN  IF ch = NL \/ ch = eof
        THEN IF terminate # NUL
             THEN [s |-> scanError(s, "string literal not terminated"), tok |-> tok,
                   lit |-> Str(s.src, offset, s.offset - 1)]
             ELSE [s |-> s, tok |-> tok, lit |-> Str(s.src, offset, s.offset)]
        ELSE IF ch = "$"
        THEN [s |-> [s EXCEPT !.mode = @ \cup {scanStringITP}], tok |-> "STRING_ITP",
              lit |-> Str(s.src, offset, s.offset)]
        ELSE IF ch = terminate
        THEN [s |-> [s1 EXCEPT !.mode = @ \ {scanAllowExpr, scanStringITP}], tok |-> tok,
              lit |-> Str(s.src, offset, s1.offset - 1)]
        ELSE IF ch = BSL
        THEN stringLoop(scanEscape(s1, terminate), offset, terminate, tok)
        ELSE stringLoop(s1, offset, terminate, tok)
scanString(s, offset, terminate) ==
    IF terminate = BQ
    THEN scanRawString(s, offset)
    ELSE stringLoop(s, offset, terminate,
                    IF isMode(s, scanStringITP) THEN "STRING_ITP" ELSE "STRING")

\* what Scan returns, with the scanner as Scan leaves it
Scanned(s, offset, tok, lit) == [s |-> s, offset |-> offset, tok |-> tok, lit |-> lit]
\* a variant of the end of Scan that asks for every line feed to be skipped
ScanEndSkipsLineFeed(s, offset, tok, lit, skipLineFeed) ==
    Scanned([s EXCEPT !.skipLineFeed = TRUE], offset, tok, lit)
\* the common end of Scan:  s.skipLineFeed = skipLineFeed; return
ScanEnd(s, offset, tok, lit, skipLineFeed) ==
    Scanned([s EXCEPT !.skipLineFeed = skipLineFeed], offset, tok, lit)
\* the end of Scan for an operator, whose literal is the text it has consumed
ScanOp(r, offset, skipLineFeed) ==
    ScanEnd(r.s, offset, r.tok, Str(r.s.src, offset, r.s.offset), skipLineFeed)
Tok(s, tok) == [s |-> s, tok |-> tok]

\* Scan, case isLetter(ch): a word, or the next piece of an interpolated string
scanLetter(s, offs) ==
    IF isMode(s, scanStringITP) /\ s.prevTok[2] # "VAR" /\ ~isMode(s, scanAllowExpr)
    THEN LET r == scanString(s, offs, s.stringTerminate)
         IN  ScanEnd(r.s, offs, r.tok, r.lit, FALSE)
    ELSE LET r == scanIdentifier(s)
             tok == Lookup(r.lit, r.tok)
         IN  IF isMode(s, scanStringITP)
             THEN ScanEnd(r.s, s.offset, r.tok, r.lit, TRUE)
             ELSE IF Len(r.lit) > 1
             THEN IF r.lit \in {"false", "true"}
                  THEN ScanEnd(r.s, s.offset, "BOOLEAN", r.lit, FALSE)
                  ELSE ScanEnd(r.s, s.offset, tok, r.lit,
                               tok \notin {"IDENT", "BREAK", "CONTINUE", "RETURN"})
             ELSE ScanEnd(r.s, s.offset, r.tok, r.lit, FALSE)

\* Scan, default case, for the characters that are one token or begin one; s is the
\* scanner after s.next() and ch the character it has passed
scanOperator(s, ch, offset) ==
    IF ch = "@" THEN ScanOp(Tok(s, "AT"), offset, TRUE)
    ELSE IF ch = "#" THEN ScanOp(Tok(s, "HASH"), offset, TRUE)
    ELSE IF ch = "~" THEN ScanOp(Tok(s, "FD"), offset, TRUE)
    ELSE IF ch = "$" THEN ScanOp(Tok(s, "VAR"), offset, TRUE)
    ELSE IF ch = "?" THEN ScanOp(ternary(s, s.ch = "?", "DQS", "QES"), offset, TRUE)
    ELSE IF ch = "!" THEN ScanOp(ternary(s, s.ch = "=", "NEQ", "NOT"), offset, TRUE)
    ELSE IF ch = "^" THEN ScanOp(Tok(s, "XOR"), offset, TRUE)
    ELSE IF ch = "&" THEN ScanOp(ternary2(s, "&", "LAND", "^", "AND_NOT", "AND"), offset, TRUE)
    ELSE IF ch = "%" THEN ScanOp(ternary(s, s.ch = "=", "REM_ASSIGN", "REM"), offset, TRUE)
    ELSE IF ch = "|"
    THEN IF isMode(s, scanArgument)
         THEN ScanOp(Tok(s, "PIPE"), offset, TRUE)
         ELSE ScanOp(ternary2(s, "|", "LOR", "=", "OR_ASSIGN", "OR"), offset, TRUE)
    ELSE IF ch = "=" THEN ScanOp(ternary2(s, "=", "EQL", ">", "LAMBDA", "ASSIGN"), offset, TRUE)
    ELSE IF ch = "+"
    THEN LET r == ternary2(s, "=", "ADD_ASSIGN", "+", "INC", "ADD")
         IN  ScanOp(r, offset, r.tok # "INC")
    ELSE IF ch = "-"
    THEN LET r == ternary2(s, "=", "SUB_ASSIGN", "-", "DEC", "SUB")
         IN  ScanOp(r, offset, r.tok # "DEC")
    ELSE IF ch = "/"
    THEN IF s.ch = "/" \/ s.ch = "*"
         THEN LET r == scanComment(s)
              IN  ScanEnd(r.s, offset, "COMMENT", r.lit, TRUE)
         ELSE ScanOp(ternary(s, s.ch = "=", "QUO_ASSIGN", "QUO"), offset, TRUE)
    ELSE IF ch = "*" THEN ScanOp(ternary(s, s.ch = "=", "MUL_ASSIGN", "MUL"), offset, TRUE)
    ELSE IF ch = ":" THEN ScanOp(Tok(s, "COLON"), offset, TRUE)
    ELSE IF ch = "," THEN ScanOp(Tok(s, "COMMA"), offset, TRUE)
    ELSE IF ch = "."
    THEN IF s.ch # "."
         THEN Scanned(scanError(s, "invalid symbol ."), offset, "ILLEGAL", "")
         ELSE ScanEnd(scanner_next(s), offset, "RANGE", "..", TRUE)
    ELSE IF ch = "[" THEN ScanOp(Tok(s, "LBRACK"), offset, TRUE)
    ELSE IF ch = "]" THEN ScanOp(Tok(s, "RBRACK"), offset, FALSE)
    ELSE IF ch = "{"
    THEN ScanOp(Tok([s EXCEPT !.mode = IF isMode(s, scanStringITP)
                                       THEN @ \cup {scanAllowExpr} ELSE @], "LBRACE"),
                offset, TRUE)
    ELSE IF ch = "}"
    THEN ScanOp(Tok([s EXCEPT !.mode = IF isMode(s, scanStringITP)
                                       THEN @ \ {scanAllowExpr} ELSE @], "RBRACE"),
                offset, FALSE)
    ELSE IF ch = "(" THEN ScanOp(Tok(s, "LPAREN"), offset, TRUE)
    ELSE IF ch = ")" THEN ScanOp(Tok(s, "RPAREN"), offset, FALSE)
    ELSE IF ch = ">"
    THEN IF isMode(s, scanArgument)
         THEN ScanOp(ternary(s, s.ch = ">", "APPEND_TO", "WRITE_TO"), offset, TRUE)
         ELSE ScanOp(ternary2(s, "=", "GEQ", ">", "SHR", "GTR"), offset, TRUE)
    ELSE IF ch = "<"
    THEN IF isMode(s, scanArgument)
         THEN ScanOp(Tok(s, "READ_FROM"), offset, TRUE)
         ELSE ScanOp(ternary2(s, "=", "LEQ", "<", "SHL", "LSS"), offset, TRUE)
    ELSE ScanOp(Tok(s, "ILLEGAL"), offset, TRUE)

\* Scan from the label revisit on
RECURSIVE scanToken(_)
scanToken(s0) ==
    LET offs == s0.offset
        s == skipWhitespace(s0)
        ch == s.ch
        s1 == scanner_next(s)
    IN  IF ch = eof
        THEN IF ~s.skipLineFeed
             THEN Scanned([s EXCEPT !.skipLineFeed = TRUE, !.mode = @ \ {scanArgument}],
                          s.offset, "LF", NL)
             ELSE Scanned(s, s.offset, "EOF", "")
        ELSE IF isLineFeed(ch)
        THEN Scanned([s EXCEPT !.skipLineFeed = TRUE, !.mode = @ \ {scanArgument}],
                     s.offset, "LF", NL)
        ELSE IF isLetter(ch)
        THEN scanLetter(s, offs)
        ELSE IF isDecimal(ch)
        THEN LET r == scanNumber(s)
             IN  ScanEnd(r.s, s.offset, r.tok, r.lit, FALSE)
        ELSE IF /\ isMode(s, scanStringITP) /\ ~isMode(s, scanAllowExpr)
                /\ ch # "{" /\ ch # "$" /\ s.prevTok[2] # "VAR"
        THEN LET from == IF s.stringTerminate # NUL THEN offs ELSE s.offset
                 r == scanString(s, from, s.stringTerminate)
             IN  ScanEnd(r.s, from, r.tok, r.lit, FALSE)
        ELSE IF ch = BSL /\ isLineFeed(s1.ch) /\ isMode(s, scanArgument)
        THEN scanToken(scanner_next(s1))
        ELSE IF ch \in {SQ, DQ, BQ}
        THEN LET r == scanString(s1, s1.offset, ch)
             IN  IF r.tok = "STRING_ITP"
                 THEN Scanned([r.s EXCEPT !.stringTerminate = ch], s1.offset, r.tok, r.lit)
                 ELSE ScanEnd(r.s, s1.offset, r.tok, r.lit, FALSE)
        ELSE scanOperator(s1, ch, s.offset)

\* scanner.Scan: enter Argument mode after  @name  or  #name,  scan one token, and
\* record it as the previous token
enterArgument(s) ==
    IF /\ ~isMode(s, scanArgument)
       /\ s.prevTok[1] \in {"AT", "HASH"} /\ s.prevTok[2] = "IDENT"
    THEN [s EXCEPT !.mode = @ \cup {scanArgument}]
    ELSE s
Scan(s) ==
    LET r == scanToken(enterArgument(s))
    IN  [r EXCEPT !.s.prevTok = <<r.s.prevTok[2], r.tok>>]

\* sources of TestGeneralScanner, each followed by its newline
GeneralSources ==
    {
     \*  \ta = [1,2,b,{1:2}]\n
     <<"\t", "a", " ", "=", " ", "[", "1", ",", "2", ",", "b", ",", "{", "1", ":", "2", "}", "]", NL>>,
     \*  a = [1,2,b,{1:2}]\n
     <<"a", " ", "=", " ", "[", "1", ",", "2", ",", "b", ",", "{", "1", ":", "2", "}", "]", NL>>,
     \*  var = 12 * 12 + sample\n
     <<"v", "a", "r", " ", "=", " ", "1", "2", " ", "*", " ", "1", "2", " ", "+", " ", "s", "a", "m", "p", "l", "e", NL>>,
     \*  \tif a < b { }\n
     <<"\t", "i", "f", " ", "a", " ", "<", " ", "b", " ", "{", " ", "}", NL>>,
     \*  \tfor i in 1..10 {\n
     <<"\t", "f", "o", "r", " ", "i", " ", "i", "n", " ", "1", ".", ".", "1", "0", " ", "{", NL>>
    }

\* a call of a command or function, up to the end of its logical line
CallLines ==
    {
     \*  @echo a > f
     <<"@", "e", "c", "h", "o", " ", "a", " ", ">", " ", "f">>,
     \*  @echo a >> f
     <<"@", "e", "c", "h", "o", " ", "a", " ", ">", ">", " ", "f">>,
     \*  #cat < f | g
     <<"#", "c", "a", "t", " ", "<", " ", "f", " ", "|", " ", "g">>,
     \*  @echo a \\n > f
     <<"@", "e", "c", "h", "o", " ", "a", " ", BSL, NL, " ", ">", " ", "f">>,
     \*  @echo a // c
     <<"@", "e", "c", "h", "o", " ", "a", " ", "/", "/", " ", "c">>,
     \*  @echo a
     <<"@", "e", "c", "h", "o", " ", "a">>
    }

\* what follows the call: the end of its line and a statement with no call
LaterLines ==
    {
     \*  \nx = a < b\n
     <<NL, "x", " ", "=", " ", "a", " ", "<", " ", "b", NL>>,
     \*  \ny = a | b > c\n
     <<NL, "y", " ", "=", " ", "a", " ", "|", " ", "b", " ", ">", " ", "c", NL>>,
     \*  \n
     <<NL>>
    }

\* the text between the quotes of a string literal
StringBodies ==
    {
     \*  ab
     <<"a", "b">>,
     \*  a$b
     <<"a", "$", "b">>,
     \*  a $b c
     <<"a", " ", "$", "b", " ", "c">>,
     \*  a${b}c
     <<"a", "$", "{", "b", "}", "c">>
    }

\* what precedes the string literal
StringPrefixes ==
    {
     \*  
     <<>>,
     \*  x = 
     <<"x", " ", "=", " ">>,
     \*  @echo 
     <<"@", "e", "c", "h", "o", " ">>
    }

\* what follows the string literal
StringRests ==
    {
     \*  
     <<>>,
     \*  \ny = 1\n
     <<NL, "y", " ", "=", " ", "1", NL>>,
     \*   > c\n
     <<" ", ">", " ", "c", NL>>
    }

\* the sources scanned: the general ones, a call followed by a later line, and a
\* string literal in each quote form with something before and after it
Quoted(q, body) == <<q>> \o body \o <<q>>
ScanSources ==
    GeneralSources
    \cup {c \o l : c \in CallLines, l \in LaterLines}
    \cup LaterLines
    \cup {p \o Quoted(q, b) \o r :
            p \in StringPrefixes, q \in {DQ, SQ, BQ}, b \in StringBodies, r \in StringRests}

\* the number of EOF tokens Scan has returned so far
NumEOF == Cardinality({k \in DOMAIN obs.toks : obs.toks[k].tok = "EOF"})

\* NewScannerSrc(file, src, eh) on one of the sources, as the scanner tests call it
InitScan ==
    /\ prog = NoProgram
    /\ names = <<>>
    /\ pargs = <<>>
    /\ ctx = renewContext
    /\ nid = 1
    /\ stack = <<>>
    /\ ret = NoRet
    /\ result = "idle"
    /\ obs = Obs0(prog)
    /\ \E src \in ScanSources : scanner = NewScannerSrc(src)
    /\ parser = NoParser
    /\ env = NoEnv
    /\ heap = NoHeap

\* one call of s.Scan(); the caller goes on calling it after the first EOF
ScanCall ==
    /\ NumEOF < MaxEOF
    /\ LET r == Scan(scanner)
       IN  /\ scanner' = r.s
           /\ obs' = [obs EXCEPT !.toks = Append(@, [offset |-> r.offset, tok |-> r.tok,
                                                    lit |-> r.lit,
                                                    mode |-> enterArgument(scanner).mode])]
    /\ UNCHANGED <<prog, names, pargs, ctx, nid, stack, ret, result, parser, env, heap>>

SpecScan == InitScan /\ [][ScanCall]_vars

-----------------------------------------------------------------------------
(* The parser (pkg/cook/parser/parser.go).  A parse function is an operator  *)
(* from the parser to the parser it leaves behind; what the Go function      *)
(* returns is left in the field x (a node) or r (an offset or a boolean).    *)
(* Two loops of the parser have a switch with no default case: an iteration  *)
(* on a token that no case names changes nothing and is followed by the same *)
(* iteration again.  The field spin names the loop that is in that position; *)
(* from then on nothing else of the parser runs.                             *)
(* The sources explored use identifiers, integer literals,                    *)
(* comparisons, assignments, array literals, if statements without else,     *)
(* comments and include directives; the cases of the parse functions for     *)
(* other tokens are left out and no source reaches them.                     *)

\* v := e, followed by what F does with v
With(e, F(_)) == F(e)

\* the nil node
NoNode == [node |-> "nil"]
BasicLit(file, offs, lit, kind) ==
    [node |-> "BasicLit", File |-> file, Offset |-> offs, Lit |-> lit, Kind |-> kind]
Ident(file, offs, name) == [node |-> "Ident", File |-> file, Offset |-> offs, Name |-> name]
Binary(file, offs, op, l, r) ==
    [node |-> "Binary", File |-> file, Offset |-> offs, Op |-> op, L |-> l, R |-> r]
ArrayLiteral(file, offs, values) ==
    [node |-> "ArrayLiteral", File |-> file, Offset |-> offs, Values |-> values]
NewAssignStatement(file, offs, op, ident, value) ==
    [node |-> "AssignStatement", File |-> file, Offset |-> offs, Op |-> op,
     Ident |-> ident, Value |-> value]
NewIfStatement(file, offs, cond, insts) ==
    [node |-> "IfStatement", File |-> file, Offset |-> offs, Cond |-> cond, Insts |-> insts]

\* token.LowestPrec and Token.Precedence
LowestPrec == 0
Precedence(tok) ==
    CASE tok = "LOR" -> 1
      [] tok = "LAND" -> 2
      [] tok \in {"EQL", "NEQ", "LSS", "LEQ", "GTR", "GEQ"} -> 3
      [] tok \in {"ADD", "SUB"} -> 4
      [] tok \in {"MUL", "QUO", "REM"} -> 5
      [] OTHER -> LowestPrec
\* Token.IsComparison
IsComparison(tok) == tok \in {"EQL", "NEQ", "LSS", "LEQ", "GTR", "GEQ"}
\* the tokens from ADD_ASSIGN to REM_ASSIGN, and ASSIGN
AssignOps == {"ASSIGN", "ADD_ASSIGN", "SUB_ASSIGN", "MUL_ASSIGN", "QUO_ASSIGN", "REM_ASSIGN"}

\* filepath.Join(filepath.Dir(name), file): the files explored lie in the working
\* directory and are named without a separator, so Dir(name) is "." and the cleaned
\* join is the name the directive gave
IncludedPath(name, file) == file

\* NewParser, with the files the file system holds
NewParser(files) ==
    [files |-> files, pc |-> "start", tfile |-> "", s |-> [toks |-> <<>>, n |-> 1, offset |-> -1],
     cOffs |-> -1, cTok |-> "ILLEGAL", cLit |-> "",
     nOffs |-> -1, nTok |-> "ILLEGAL", nLit |-> "",
     errs |-> <<>>, pending |-> <<>>, parsed |-> {},
     cook |-> <<>>, blocks |-> <<>>, spin |-> "",
     x |-> NoNode, r |-> 0, ret |-> [hasCook |-> FALSE, cook |-> <<>>, err |-> <<>>]]

\* what the scanner hands out from s on, call by call, up to the first EOF, with the
\* offset the scanner is at after each call; the sources explored have no lexical
\* error, so the scanner never calls the handler of the parser and its tokens do not
\* depend on what the parser does between two calls
RECURSIVE ScanAll(_)
\* the token a call of Scan returned, and the tokens of the calls after it
ScanFrom(t) ==
    <<[offset |-> t.offset, tok |-> t.tok, lit |-> t.lit, at |-> t.s.offset,
       errs |-> t.s.errs]>>
    \o (IF t.tok = "EOF" THEN <<>> ELSE ScanAll(t.s))
ScanAll(s) == ScanFrom(Scan(s))

\* parser.next; p.s.Scan() hands out the next token of the file
parser_next(p) ==
    IF p.spin # "" THEN p
    ELSE LET q == [p EXCEPT !.cOffs = p.nOffs, !.cTok = p.nTok, !.cLit = p.nLit]
         IN  IF p.nTok # "EOF"
             THEN LET t == p.s.toks[p.s.n]
                  IN  [q EXCEPT !.s.n = @ + 1, !.s.offset = t.at,
                                !.nOffs = t.offset, !.nTok = t.tok, !.nLit = t.lit]
             ELSE q

\* the loop of errorHandler: ignore everything until a new statement
RECURSIVE skipToStatement(_)
skipToStatement(p) ==
    With(parser_next(p), LAMBDA q :
        CASE q.cTok = "IDENT" ->
               IF q.nTok \in AssignOps \/ q.nTok = "LBRACK" THEN q ELSE skipToStatement(q)
          [] q.cTok \in {"FOR", "IF", "BREAK", "CONTINUE", "RETURN", "EOF", "COMMENT"} -> q
          [] OTHER -> skipToStatement(q))

\* parser.errorHandler, called at the current position
errorHandler(p, msg) ==
    IF p.spin # "" THEN p
    ELSE skipToStatement([p EXCEPT !.errs = Append(@, [File |-> p.tfile, Offset |-> p.cOffs,
                                                      msg |-> msg])])

\* parser.expect; the offset it returns is left in r
expect(p, require) ==
    IF p.cTok # require
    THEN [errorHandler(p, "expect " \o require \o " but got " \o p.cTok) EXCEPT !.r = -1]
    ELSE [parser_next(p) EXCEPT !.r = p.cOffs]

\* parser.init, given the tokens of the file
initScanned(p, file, toks) ==
    [p EXCEPT !.tfile = file, !.s = [toks |-> toks, n |-> 2, offset |-> toks[1].at],
              !.cOffs = -1, !.cTok = "ILLEGAL", !.cLit = "",
              !.nOffs = toks[1].offset, !.nTok = toks[1].tok, !.nLit = toks[1].lit]
init(p, file) ==
    initScanned(p, file, ScanAll([NewScannerSrc(p.files[file]) EXCEPT !.skipLineFeed = TRUE]))

\* p.pending[key] = file
PutPending(pending, key, file) ==
    [k \in DOMAIN pending \cup {key} |-> IF k = key THEN file ELSE pending[k]]
\* delete(p.pending, key)
DeletePending(pending, key) == [k \in DOMAIN pending \ {key} |-> pending[k]]

\* parser.parseIncludeDirective
parseIncludeDirective(p) ==
    With(parser_next(p), LAMBDA p1 :
        IF p1.cTok = "STRING"
        THEN IF p1.cLit \in p1.parsed \/ p1.cLit \in DOMAIN p1.pending
             THEN p1
             ELSE With(expect(parser_next(p1), "LF"), LAMBDA p3 :
                      IF p3.r = -1 THEN p3
                      ELSE IF IncludedPath(p3.tfile, p1.cLit) \notin DOMAIN p3.files
                           THEN errorHandler(p3, "included file "
                                                 \o IncludedPath(p3.tfile, p1.cLit)
                                                 \o " not found")
                           ELSE [p3 EXCEPT !.pending =
                                     PutPending(@, p3.cLit, IncludedPath(p3.tfile, p1.cLit))])
        ELSE errorHandler(p1, "include directive expected string"))

\* p.block.Append(stmt): the block being parsed, or the block of the cook
AppendStatement(p, stmt) ==
    IF p.spin # "" THEN p
    ELSE IF p.blocks = <<>> THEN [p EXCEPT !.cook = Append(@, stmt)]
         ELSE [p EXCEPT !.blocks[Len(p.blocks)] = Append(@, stmt)]

RECURSIVE parseAssignStatement(_, _)
RECURSIVE parseBinaryExpr(_, _, _)
RECURSIVE binaryLoop(_, _, _, _, _)
RECURSIVE parseUnaryExpr(_)
RECURSIVE parseOperand(_)
RECURSIVE parserArrayLiteral(_)
RECURSIVE arrayLoop(_, _)
RECURSIVE parseIf(_, _)
RECURSIVE parseBlock(_, _)
RECURSIVE blockLoop(_, _)

\* parser.parseAssignStatement
parseAssignStatement(p, settableNode) ==
    With(parser_next(p), LAMBDA p1 :
        IF p1.cTok \in AssignOps
        THEN With(parseBinaryExpr(p1, FALSE, LowestPrec + 1), LAMBDA p2 :
                 AppendStatement(IF p2.cTok = "LF" THEN parser_next(p2) ELSE p2,
                                 NewAssignStatement(p.tfile, p.cOffs, p1.cTok, settableNode,
                                                    p2.x)))
        ELSE errorHandler(p1, "unexpected " \o p1.cTok))

\* parser.parseBinaryExpr
parseBinaryExpr(p, isChaining, priority) ==
    With(parseUnaryExpr(parser_next(p)), LAMBDA p2 :
        IF isChaining /\ IsComparison(p2.cTok) THEN p2
        ELSE binaryLoop(p2, p2.x, NoNode, isChaining, priority))

\* the loop of parseBinaryExpr, with its x and prevNode
binaryLoop(p, x, prevNode, isChaining, priority) ==
    LET op == p.cTok
        oprec == Precedence(op)
        offs == p.cOffs
        isComp == IsComparison(op)
    IN  IF p.spin # "" THEN p
        ELSE IF oprec < priority \/ (isChaining /\ IsComparison(op)) THEN [p EXCEPT !.x = x]
        ELSE With(parseBinaryExpr(p, isChaining \/ isComp, oprec + 1), LAMBDA py :
                 LET ly == py.x
                     y == IF prevNode # NoNode THEN Binary(p.tfile, offs, op, prevNode, ly)
                          ELSE ly
                     op2 == IF prevNode # NoNode THEN "LAND" ELSE op
                 IN  binaryLoop(py, Binary(p.tfile, offs, op2, x, y),
                                IF isComp /\ IsComparison(py.cTok) THEN ly ELSE NoNode,
                                isChaining, priority))

\* parser.parseUnaryExpr: an operand
parseUnaryExpr(p) ==
    CASE p.cTok \notin {"ADD", "SUB", "NOT", "XOR", "FD", "SIZEOF", "VAR", "TINTEGER",
                        "TFLOAT", "TSTRING", "TBOOLEAN", "ON", "HASH", "AT"} ->
           With(parseOperand(p), LAMBDA p1 : CASE p1.cTok # "EXISTS" -> p1)

\* parser.parseOperand
parseOperand(p) ==
    CASE p.cTok = "IDENT" /\ p.nTok # "LBRACK" ->
           [parser_next(p) EXCEPT !.x = Ident(p.tfile, p.cOffs, p.cLit)]
      [] p.cTok \in {"INTEGER", "FLOAT", "BOOLEAN"} ->
           [parser_next(p) EXCEPT !.x = BasicLit(p.tfile, p.cOffs, p.cLit, p.cTok)]
      [] p.cTok = "LBRACK" -> parserArrayLiteral(p)
      [] p.cTok \notin {"IDENT", "INTEGER", "FLOAT", "STRING", "BOOLEAN", "STRING_ITP",
                        "LPAREN", "LBRACE", "LBRACK"} ->
           [errorHandler(p, "invalid token " \o p.cTok) EXCEPT !.x = NoNode]

\* parser.parserArrayLiteral; the values explored are not strings, so none is a glob
parserArrayLiteral(p) ==
    With(parser_next(p), LAMBDA p1 :
    With(IF p1.cTok # "RBRACK" THEN parseOperand(p1) ELSE p1, LAMBDA p2 :
    With(arrayLoop(p2, IF p1.cTok # "RBRACK" THEN <<p2.x>> ELSE <<>>), LAMBDA p3 :
    With(expect(p3, "RBRACK"), LAMBDA p4 :
        IF p4.r # -1 THEN [p4 EXCEPT !.x = ArrayLiteral(p.tfile, p.s.offset, p3.x)]
        ELSE [p4 EXCEPT !.x = NoNode]))))

\* the loop of parserArrayLiteral; it leaves the values in x
arrayLoop(p, values) ==
    IF p.spin # "" THEN p
    ELSE CASE p.cTok \in {"RBRACK", "EOF"} -> [p EXCEPT !.x = values]
           [] p.cTok = "COMMA" ->
                With(parser_next(p), LAMBDA p1 :
                    IF p1.cTok = "RBRACK" THEN [p1 EXCEPT !.x = values]
                    ELSE With(parseOperand(p1), LAMBDA p2 :
                             arrayLoop(p2, Append(values, p2.x))))
           [] OTHER -> [p EXCEPT !.spin = "parserArrayLiteral"]

\* parser.parseIf with no else statement to fill, up to the test for an else
parseIf(p, inForLoop) ==
    With(parseBinaryExpr(p, FALSE, LowestPrec + 1), LAMBDA p1 :
    With(expect(p1, "LBRACE"), LAMBDA p2 :
        IF p2.r = -1 THEN p2
        ELSE With(parseBlock(p2, inForLoop), LAMBDA p3 :
                 IF p3.spin # "" THEN p3
                 ELSE IF p3.r
                 THEN With(AppendStatement(p3, NewIfStatement(p.tfile, p.cOffs, p1.x, p3.x)),
                           LAMBDA p4 : CASE p4.cTok # "ELSE" -> p4)
                 ELSE p3)))

\* the tokens the switch of parseBlock has a case for
BlockCases == {"IDENT", "AT", "HASH", "FOR", "IF", "EXIT", "RETURN", "BREAK", "CONTINUE",
               "COMMENT"}

\* parser.parseBlock; it leaves the statements of the block in x and its result in r
parseBlock(p, inForLoop) ==
    With(blockLoop([p EXCEPT !.blocks = Append(@, <<>>)], inForLoop), LAMBDA p1 :
        IF p1.spin # "" THEN p1
        ELSE With(parser_next(p1), LAMBDA p2 :
             With(IF p2.cTok = "LF" THEN parser_next(p2) ELSE p2, LAMBDA p3 :
                 [p3 EXCEPT !.blocks = Front(@), !.x = Last(p3.blocks),
                            !.r = p1.cTok = "RBRACE"])))

\* the loop of parseBlock
blockLoop(p, inForLoop) ==
    IF p.spin # "" \/ p.cTok = "RBRACE" \/ p.cTok = "EOF" THEN p
    ELSE CASE p.cTok = "IDENT" /\ p.nTok \notin {"INC", "DEC", "LBRACK"} ->
                blockLoop(parseAssignStatement(p, Ident(p.tfile, p.cOffs, p.cLit)), inForLoop)
           [] p.cTok = "IF" -> blockLoop(parseIf(p, inForLoop), inForLoop)
           [] p.cTok = "COMMENT" -> blockLoop(parser_next(p), inForLoop)
           [] p.cTok \notin BlockCases -> [p EXCEPT !.spin = "parseBlock"]

\* parser.parseIdentifier
parseIdentifier(p, head) ==
    CASE p.nTok = "LBRACE" ->
           IF head
           THEN With(parser_next(p), LAMBDA p1 : errorHandler(p1, "unexpected " \o p1.cTok))
           ELSE p
      [] p.nTok \notin {"COLON", "LPAREN", "LBRACK", "LBRACE", "INC", "DEC"} ->
           With(parseAssignStatement(p, Ident(p.tfile, p.cOffs, p.cLit)), LAMBDA p1 :
               IF p1.cTok = "LF" THEN parser_next(p1) ELSE p1)

\* the loop of parser.parse that scans the include directives, after its p.next()
RECURSIVE includeLoop(_)
includeLoop(p) ==
    IF p.cTok # "EOF" /\ p.cTok = "INCLUDE" THEN includeLoop(parseIncludeDirective(p)) ELSE p

\* one iteration of the loop of parser.parse over the statements of a file
parseStatement(p) ==
    CASE p.cTok = "INCLUDE" ->
           errorHandler(p, "include directive must place at the very top of the file.")
      [] p.cTok = "IDENT" -> parseIdentifier(p, TRUE)
      [] p.cTok = "IF" -> parseIf(p, FALSE)
      [] p.cTok = "COMMENT" -> parser_next(p)
      [] p.cTok \notin {"INCLUDE", "IDENT", "FOR", "IF", "AT", "HASH", "EXIT", "COMMENT"} ->
           errorHandler(p, "invalid token " \o p.cTok)

\* strconv.ParseInt(lit, 10, 64) of the literals explored, which have one digit
ParseInt(lit) == CHOOSE n \in 0..9 : ToString(n) = lit

\* logicOperator on two integers or on two booleans
logicOperator(op, vl, vr, log) ==
    IF vl.k = "Int64" /\ vr.k = "Int64"
    THEN [v |-> CASE op = "EQL" -> vl.v = vr.v
                  [] op = "LSS" -> vl.v < vr.v
                  [] op = "GTR" -> vl.v > vr.v
                  [] op = "NEQ" -> vl.v # vr.v
                  [] op = "LEQ" -> vl.v <= vr.v
                  [] op = "GEQ" -> vl.v >= vr.v,
          k |-> "Bool", err |-> Nil, log |-> log]
    ELSE IF vl.k = vr.k /\ vl.k = "Bool" /\ op \in {"EQL", "NEQ"}
    THEN [v |-> IF op = "EQL" THEN vl.v = vr.v ELSE vl.v # vr.v,
          k |-> "Bool", err |-> Nil, log |-> log]
    ELSE [v |-> 0, k |-> "Invalid", err |-> "operator is not supported", log |-> log]

\* Evaluate of a BasicLit of kind INTEGER and of a Binary of comparisons and logical
\* operators; log lists the nodes whose Evaluate was called, by offset, in order
RECURSIVE NodeEvaluate(_, _)
NodeEvaluate(n, log) ==
    CASE n.node = "BasicLit" /\ n.Kind = "INTEGER" ->
           [v |-> ParseInt(n.Lit), k |-> "Int64", err |-> Nil, log |-> Append(log, n.Offset)]
      [] n.node = "Binary" ->
           LET l == NodeEvaluate(n.L, Append(log, n.Offset))
               r == NodeEvaluate(n.R, l.log)
           IN  IF l.err # Nil THEN [v |-> 0, k |-> "Invalid", err |-> l.err, log |-> l.log]
               ELSE IF r.err # Nil THEN [v |-> 0, k |-> "Invalid", err |-> r.err, log |-> r.log]
               ELSE CASE n.Op \in {"EQL", "NEQ", "LSS", "LEQ", "GTR", "GEQ"} ->
                           logicOperator(n.Op, l, r, r.log)
                      [] n.Op \in {"LAND", "LOR"} /\ l.k = r.k /\ l.k = "Bool" ->
                           [v |-> IF n.Op = "LAND" THEN l.v /\ r.v ELSE l.v \/ r.v,
                            k |-> "Bool", err |-> Nil, log |-> r.log]
                      [] n.Op \in {"LAND", "LOR"} /\ ~(l.k = r.k /\ l.k = "Bool") ->
                           [v |-> 0, k |-> "Invalid", err |-> "unsupported operator",
                            log |-> r.log]

\* sources with and without syntax errors, among them an unexpected token inside a
\* block and inside an array literal
StatementSources ==
    {
     \*  x = 1 2\ny = 3\n
     <<"x", " ", "=", " ", "1", " ", "2", NL, "y", " ", "=", " ", "3", NL>>,
     \*  a = [1,2]\n
     <<"a", " ", "=", " ", "[", "1", ",", "2", "]", NL>>,
     \*  a = [1 2]\n
     <<"a", " ", "=", " ", "[", "1", " ", "2", "]", NL>>,
     \*  a = [1,\n
     <<"a", " ", "=", " ", "[", "1", ",", NL>>,
     \*  a = []\n
     <<"a", " ", "=", " ", "[", "]", NL>>,
     \*  if a < b {\n x = 1\n}\ny = 2\n
     <<"i", "f", " ", "a", " ", "<", " ", "b", " ", "{", NL, " ", "x", " ", "=", " ", "1", NL, "}", NL, "y", " ", "=", " ", "2", NL>>,
     \*  if a < b {\n 5\n}\n
     <<"i", "f", " ", "a", " ", "<", " ", "b", " ", "{", NL, " ", "5", NL, "}", NL>>,
     \*  if a < b {\n x = 1 2\n}\n
     <<"i", "f", " ", "a", " ", "<", " ", "b", " ", "{", NL, " ", "x", " ", "=", " ", "1", " ", "2", NL, "}", NL>>,
     \*  x = 1\ninclude "a"\ny = 2\n
     <<"x", " ", "=", " ", "1", NL, "i", "n", "c", "l", "u", "d", "e", " ", DQ, "a", DQ, NL, "y", " ", "=", " ", "2", NL>>,
     \*  // c\nx = 1\n
     <<"/", "/", " ", "c", NL, "x", " ", "=", " ", "1", NL>>,
     \*  x {\ny = 1\n
     <<"x", " ", "{", NL, "y", " ", "=", " ", "1", NL>>,
     \*  = 1\nx = 2\n
     <<"=", " ", "1", NL, "x", " ", "=", " ", "2", NL>>,
     \*  x 1\ny = 2\n
     <<"x", " ", "1", NL, "y", " ", "=", " ", "2", NL>>,
     \*  if a {\n // c\n if b {\n y = 1\n }\n}\n
     <<"i", "f", " ", "a", " ", "{", NL, " ", "/", "/", " ", "c", NL, " ", "i", "f", " ", "b", " ", "{", NL, " ", "y", " ", "=", " ", "1", NL, " ", "}", NL, "}", NL>>,
     \*  include x\ny = 1\n
     <<"i", "n", "c", "l", "u", "d", "e", " ", "x", NL, "y", " ", "=", " ", "1", NL>>,
     \*  if a < b\nx = 1\n
     <<"i", "f", " ", "a", " ", "<", " ", "b", NL, "x", " ", "=", " ", "1", NL>>,
     \*  x = 1 < 2\n
     <<"x", " ", "=", " ", "1", " ", "<", " ", "2", NL>>,
     \*  x = 1 < 2 < 3 < 4\n
     <<"x", " ", "=", " ", "1", " ", "<", " ", "2", " ", "<", " ", "3", " ", "<", " ", "4", NL>>
    }

\* bound on the include directives at the top of the main file
MaxIncludes == 3

\* the file ParseSrc is given, and the files it may include
MainFile == "main"
Included == {"a", "b", "c"}
\* the characters of a file name, and the variable the one statement of the file assigns
NameChars == [main |-> <<"m", "a", "i", "n">>, a |-> <<"a">>, b |-> <<"b">>, c |-> <<"c">>]
\* include "name"\n
IncludeLine(name) ==
    <<"i", "n", "c", "l", "u", "d", "e", " ", DQ>> \o NameChars[name] \o <<DQ, NL>>
RECURSIVE IncludeLines(_)
IncludeLines(ns) == IF ns = <<>> THEN <<>> ELSE IncludeLine(ns[1]) \o IncludeLines(Tail(ns))
\* the text of a file: its include directives, then  v = 1\n  with v the first letter
\* of the name of the file
FileText(name, ns) == IncludeLines(ns) \o <<NameChars[name][1], " ", "=", " ", "1", NL>>

\* which files each file includes: the main file up to MaxIncludes files, not
\* necessarily different ones; the file a nothing, the file b, or the main file
MainIncludes == UNION {[1..n -> Included] : n \in 0..MaxIncludes}
AIncludes == {<<>>, <<"b">>, <<MainFile>>}
IncludeGraphs == {[main |-> m, a |-> a, b |-> <<>>, c |-> <<>>] : m \in MainIncludes, a \in AIncludes}
FileSystem(g) == [n \in DOMAIN g |-> FileText(n, g[n])]

\* x = A op B op C\n  for one-digit integers A, B, C and comparisons op
ChainDigits == {"2", "3", "5"}
ChainOps == {"<", ">"}
ChainSource(a, o1, b, o2, c) == <<"x", " ", "=", " ", a, " ", o1, " ", b, " ", o2, " ", c, NL>>
ChainSources ==
    {ChainSource(a, o1, b, o2, c) :
        a \in ChainDigits, o1 \in ChainOps, b \in ChainDigits, o2 \in ChainOps, c \in ChainDigits}

\* a single file that includes nothing
NoIncludes == [main |-> <<>>]
SingleFile(src) == [main |-> src]

\* NewParser() on a file system
InitParse ==
    /\ prog = NoProgram
    /\ names = <<>>
    /\ pargs = <<>>
    /\ ctx = renewContext
    /\ nid = 1
    /\ stack = <<>>
    /\ ret = NoRet
    /\ result = "idle"
    /\ scanner = NoScanner
    /\ env = NoEnv
    /\ heap = NoHeap
    /\ \/ \E src \in ChainSources \cup StatementSources :
             /\ parser = NewParser(SingleFile(src))
             /\ obs = [Obs0(prog) EXCEPT !.incl = NoIncludes]
       \/ \E g \in IncludeGraphs :
             /\ parser = NewParser(FileSystem(g))
             /\ obs = [Obs0(prog) EXCEPT !.incl = g]

\* ParseSrc up to the call of parse
ParseSrc ==
    /\ parser.pc = "start"
    /\ parser' = [init(parser, MainFile) EXCEPT !.cook = <<>>, !.blocks = <<>>,
                                               !.pc = "nextFile"]
    /\ obs' = [obs EXCEPT !.inits = Append(@, MainFile)]
    /\ UNCHANGED <<prog, names, pargs, ctx, nid, stack, ret, result, scanner, env, heap>>

\* parse at the label nextFile: the include directives at the top of the file
ParseIncludes ==
    /\ parser.pc = "nextFile"
    /\ parser' = [includeLoop(parser_next(parser)) EXCEPT !.pc = "statements"]
    /\ UNCHANGED <<prog, names, pargs, ctx, nid, stack, ret, result, obs, scanner, env, heap>>

\* parse: one statement of the file
ParseStatement ==
    /\ parser.pc = "statements"
    /\ parser.spin = ""
    /\ parser.cTok # "EOF"
    /\ parser' = parseStatement(parser)
    /\ UNCHANGED <<prog, names, pargs, ctx, nid, stack, ret, result, obs, scanner, env, heap>>

\* a loop with no case for the current token begins the same iteration again
LoopAgain ==
    /\ parser.pc = "statements"
    /\ parser.spin # ""
    /\ UNCHANGED vars

\* parse at the end of a file with files pending: the range over the map picks any one
ParseNextFile ==
    /\ parser.pc = "statements"
    /\ parser.spin = ""
    /\ parser.cTok = "EOF"
    /\ DOMAIN parser.pending # {}
    /\ \E k \in DOMAIN parser.pending :
          LET v == parser.pending[k]
              p1 == [parser EXCEPT !.parsed = @ \cup {parser.tfile}]
          IN  /\ parser' = [init(p1, v) EXCEPT !.pending = DeletePending(@, k),
                                              !.blocks = <<>>, !.pc = "nextFile"]
              /\ obs' = [obs EXCEPT !.inits = Append(@, v)]
    /\ UNCHANGED <<prog, names, pargs, ctx, nid, stack, ret, result, scanner, env, heap>>

\* parse at the end of the last file: the error stack, or the cook
ParseReturn ==
    /\ parser.pc = "statements"
    /\ parser.spin = ""
    /\ parser.cTok = "EOF"
    /\ DOMAIN parser.pending = {}
    /\ parser' = [parser EXCEPT
                    !.ret = IF parser.errs # <<>>
                            THEN [hasCook |-> FALSE, cook |-> <<>>, err |-> parser.errs]
                            ELSE [hasCook |-> TRUE, cook |-> parser.cook, err |-> <<>>],
                    !.pc = "done"]
    /\ UNCHANGED <<prog, names, pargs, ctx, nid, stack, ret, result, obs, scanner, env, heap>>

\* the value of the first statement of the cook parse returned, an assignment of an
\* integer literal or of comparisons, is evaluated
EvaluateParsed ==
    /\ parser.pc = "done"
    /\ parser.ret.hasCook
    /\ parser.ret.cook # <<>>
    /\ parser.ret.cook[1].node = "AssignStatement"
    /\ parser.ret.cook[1].Value.node \in {"BasicLit", "Binary"}
    /\ parser' = [parser EXCEPT !.pc = "evaluated"]
    /\ obs' = [obs EXCEPT !.evals = Append(@, NodeEvaluate(parser.ret.cook[1].Value, <<>>))]
    /\ UNCHANGED <<prog, names, pargs, ctx, nid, stack, ret, result, scanner, env, heap>>

NextParse ==
    \/ ParseSrc
    \/ ParseIncludes
    \/ ParseStatement
    \/ LoopAgain
    \/ ParseNextFile
    \/ ParseReturn
    \/ EvaluateParsed

SpecParse == InitParse /\ [][NextParse]_vars

-----------------------------------------------------------------------------
(* Properties of ExecuteWithTarget *)

\* ExecuteWithTarget has returned (or the process has crashed out of it)
Done == result \notin {"idle", "running"}
\* control is in ExecuteWithTarget itself, between two phases, or has left it
ExecLevel == Done \/ (stack # <<>> /\ Top.f = "exec")
NumFinalize == Len(prog.finalizeTargets)

\* C1: whether the top-level block, the initialize targets and the requested targets
\* succeeded or failed, every finalize target has run exactly once by the time
\* ExecuteWithTarget returns.
C1_FinalizeRunsOnce == Done => \A i \in 1..NumFinalize : obs.finRuns[i] = 1

\* C2: an error returned by a finalize target leaves the value ExecuteWithTarget
\* returns as the main run decided it, and the finalize targets after it still run.
C2_FinalizeErrorIgnored ==
    Done /\ obs.finErr =>
        /\ result = obs.mainErr
        /\ \A i \in 1..NumFinalize : obs.finRuns[i] = 1

\* the first of two finalize targets failed after a main run that succeeded
C2_Witness ==
    /\ Done /\ obs.finErr /\ obs.mainErr = Nil
    /\ NumFinalize >= 2 /\ obs.finRuns[NumFinalize] = 1

NotAll(n) == n # TargetAll
\* the targets a successful run executes for the requested names, in order
RunNames ==
    IF Len(names) = 1 /\ names[1] = TargetAll
    THEN IF prog.targetAll.all
         THEN [i \in 1..Len(prog.targetIndexes) |-> prog.targetIndexes[i].name]
         ELSE <<TargetAll>>
    ELSE SelectSeq(names, NotAll)
BeginEnd(k) == IF k % 2 = 1 THEN "begin" ELSE "end"
\* cnt targets of phase ph begun and ended one after the other, in declaration order
IndexPhase(ph, cnt) == [k \in 1..(2 * cnt) |-> Event(BeginEnd(k), ph, "", (k + 1) \div 2)]
NamePhase(ns) == [k \in 1..(2 * Len(ns)) |-> Event(BeginEnd(k), "target", ns[(k + 1) \div 2], 0)]
ExpectedLog ==
    <<Event("bind", "bind", "", 0), Event("begin", "top", "", 0), Event("end", "top", "", 0)>>
    \o IndexPhase("init", Len(prog.initializeTargets))
    \o NamePhase(RunNames)
    \o IndexPhase("final", NumFinalize)

\* C3: a run that returns nil went through its phases in this order, each ended
\* before the next began: arguments bound, top-level block, initialize targets in
\* declaration order, requested targets in the order given, finalize targets in
\* declaration order.
C3_PhaseOrder == Done /\ result = Nil => obs.log = ExpectedLog

\* a successful run of two named targets with two initialize and two finalize targets
C3_Witness ==
    /\ Done /\ result = Nil
    /\ Len(names) = 2 /\ names[1] # names[2] /\ TargetAll \notin {names[1], names[2]}
    /\ Len(prog.initializeTargets) = 2 /\ NumFinalize = 2

-----------------------------------------------------------------------------
(* Properties of loops *)

\* a for statement has just returned
ForReturned == ret.set /\ ret.from = "for"
\* the body of the innermost loop has just returned to executeInsts without an error
BodyReturned == stack # <<>> /\ Top.f = "for" /\ ret.set /\ ret.err = Nil

\* C4: once a break statement targets the loop L, no statement of L or of a loop
\* nested in it begins, none of them starts another iteration, and when L has
\* returned the block of the loop enclosing it goes on with its next statement.
C4_BreakEndsTargetLoop ==
    /\ AtStmt => obs.dead = {}
    /\ (stack # <<>> /\ Top.f = "for" /\ ~ret.set /\ IterCond(Top))
           => (NumLoops - 1) \notin obs.dead
    /\ (ForReturned /\ ret.broke /\ NumLoops > 0) => ~ShouldBreak(ctx, FALSE)

\* C5: once a continue statement targets the loop L, no statement begins before L
\* is back at its header, the loops nested in L terminate, L itself goes to its
\* next iteration, and nothing of the request is left once L took it.
C5_ContinueNextIteration ==
    /\ AtStmt => obs.contT = -1
    /\ (stack # <<>> /\ Top.f = "for" /\ ~ret.set /\ IterCond(Top)) => obs.contT = -1
    /\ (BodyReturned /\ obs.contT >= 0 /\ obs.contT < NumLoops - 1) => ShouldBreak(ctx, TRUE)
    /\ (BodyReturned /\ obs.contT = NumLoops - 1 /\ obs.dead = {}) => ~ShouldBreak(ctx, TRUE)
    /\ (obs.contT = -1 /\ obs.brkT = -1) => ctx.continueAt = -1

-----------------------------------------------------------------------------
(* Properties of scopes, calls and errors *)

\* C6: a variable first assigned by a statement of a requested target is local to
\* that target: once the target has returned it is not bound in the top-level
\* scope and a lookup from the scope of ExecuteWithTarget does not find it.
C6_TargetVariablesLocal ==
    ExecLevel => \A n \in obs.locals :
                    /\ n \notin DOMAIN ctx.scope[1].vars
                    /\ CtxGet(ctx, n) = NilVal

\* C7: after a function call has returned, every parameter name has in the
\* caller's scope the value it had before the call (none, if it was not bound).
C7_ParametersLocal ==
    (ret.set /\ ret.from = "fn") =>
        \A n \in DOMAIN ret.before : CtxGet(ctx, n) = ret.before[n]

\* C8: after a statement outside finalize has failed, no statement outside
\* finalize begins, and ExecuteWithTarget returns that error; the statement may
\* be inside a target invoked with @name.
C8_ErrorStopsRun ==
    /\ ~obs.afterFail
    /\ (Done /\ obs.firstErr # "") => result = obs.firstErr

DeclaredNames == {prog.targetIndexes[i].name : i \in 1..Len(prog.targetIndexes)}
Missing(i) == names[i] # TargetAll /\ names[i] \notin DeclaredNames
OnlyAll == Len(names) = 1 /\ names[1] = TargetAll
TargetsBegun == {obs.log[k].n : k \in {j \in 1..Len(obs.log) :
                                     obs.log[j].ev = "begin" /\ obs.log[j].ph = "target"}}

\* C9: when a requested name was never declared, ExecuteWithTarget returns an
\* error instead of crashing, and no target requested after that name has begun.
C9_MissingTargetIsError ==
    (Done /\ ~OnlyAll /\ \E i \in 1..Len(names) : Missing(i)) =>
        /\ result \notin {Nil, "panic"}
        /\ \A n \in TargetsBegun :
              \E j \in 1..Len(names) :
                  names[j] = n /\ \A i \in 1..j : ~Missing(i)

\* C10: when a for statement, a target or a function call returns, with or without
\* an error, the current scope and the length of the loop stack are what they were
\* when it began; the index recorded for a loop is the depth of the loop stack at
\* the time the loop was pushed, and every ExitBlock finds the index it expects.
C10_StackDiscipline ==
    /\ (ret.set /\ ret.from \in {"for", "target", "fn"}) =>
           /\ Last(ctx.scope).id = ret.sid
           /\ Len(ctx.loopsLabel) = ret.ll
           /\ Len(ctx.loops) = ret.ll
    /\ Len(ctx.loops) = Len(ctx.loopsLabel)
    /\ \A j \in 1..Len(ctx.loops) : ctx.loops[j] = j - 1
    /\ \A k \in LoopFrames : stack[k].lid = Depth(k)
    /\ (stack # <<>> /\ Top.f = "for" /\ (ret.set \/ ~IterCond(Top)))
           => ~ExitPanics(ctx, Top.lid)
    /\ (stack # <<>> /\ Top.f \in {"target", "fn"} /\ ret.set) => ~ExitPanics(ctx, -1)

\* a for statement inside a target returned with an error
C10_Witness == ForReturned /\ ret.err # Nil /\ ret.sid > 0

-----------------------------------------------------------------------------
(* Properties of the target all *)

\* the run selects the target all, declared as  all: *
StarRun == OnlyAll /\ prog.targetAll.defined /\ prog.targetAll.all
Ordinary(d) == d.name \notin {TargetInitialize, TargetFinalize, TargetAll}
\* names of the declared targets other than initialize, finalize and all, as declared
OrdinaryNames ==
    LET ds == SelectSeq(Declarations, Ordinary) IN [i \in 1..Len(ds) |-> ds[i].name]
IsTargetEvent(e) == e.ph = "target"
TargetEvents == SelectSeq(obs.log, IsTargetEvent)
\* a target started by the "all: *" loop is running
InStarTarget == stack # <<>> /\ stack[1].f = "exec" /\ stack[1].pc = "alleach" /\ Len(stack) > 1

-----------------------------------------------------------------------------
(* Properties of intervals *)

\* the interval of the loop that is the top-level block
TheRange == prog.Insts[1].Range
\* the outermost for statement has returned
LoopReturned == ForReturned /\ NumLoops = 0
\* the integers from A towards B, A and B themselves only when included
ExpectedVisits(r) ==
    LET first == IF r.AInclude THEN r.A ELSE IF r.A < r.B THEN r.A + 1 ELSE r.A - 1
        last == IF r.BInclude THEN r.B ELSE IF r.A < r.B THEN r.B - 1 ELSE r.B + 1
        n == IF r.A < r.B THEN last - first + 1 ELSE first - last + 1
    IN  IF n <= 0 THEN <<>>
        ELSE [k \in 1..n |-> IF r.A < r.B THEN first + (k - 1) ELSE first - (k - 1)]

\* C12: a for loop over integer endpoints A # B with the default step runs its body
\* once for each integer from A towards B, in that order, with A only if AInclude
\* and B only if BInclude, and with no value outside the range.
C12_IntervalVisits ==
    (LoopReturned /\ ~TheRange.float /\ TheRange.A # TheRange.B) =>
        /\ ret.err = Nil
        /\ obs.visits = ExpectedVisits(TheRange)

\* at least one endpoint is exclusive and the endpoints are equal
EmptyInterval(r) == r.A = r.B /\ (~r.AInclude \/ ~r.BInclude)

\* C13: a for loop over an interval with equal endpoints (integer or float) of
\* which one at least is exclusive runs its body zero times and completes
\* without an error.
C13_EmptyInterval ==
    EmptyInterval(TheRange) =>
        /\ result # "panic"
        /\ obs.visits = <<>>
        /\ LoopReturned => ret.err = Nil

-----------------------------------------------------------------------------
(* Properties of AddTarget *)

\* no two targets of the list come from the same file
OnePerFile(t) == \A i, j \in DOMAIN t : i # j => t[i].File # t[j].File

\* C17: after any sequence of AddTarget calls the cook holds at most one initialize
\* and at most one finalize target per source file, whatever the order in which
\* the files were added.
C17_OnePerFile ==
    /\ OnePerFile(prog.initializeTargets)
    /\ OnePerFile(prog.finalizeTargets)

-----------------------------------------------------------------------------
(* Properties of the scanner *)

\* the source scanned and the number of its characters
TheSrc == scanner.src
SrcLen == Len(TheSrc)
\* the character at an offset
CharAt(off) == TheSrc[off + 1]

\* the source begins with the introducer of a call,  @name  or  #name
IsCall == SrcLen > 0 /\ CharAt(0) \in {"@", "#"}
\* the offset just after the name of the call
ArgStart == 1 + IdentChars(TheSrc, 1)
\* the end of the logical line that begins at offset off: its first line feed that
\* no backslash precedes, or the end of the source
RECURSIVE LogicalEnd(_)
LogicalEnd(off) ==
    IF off >= SrcLen THEN SrcLen
    ELSE IF CharAt(off) = NL /\ (off = 0 \/ CharAt(off - 1) # BSL) THEN off
    ELSE LogicalEnd(off + 1)
\* the offset lies among the arguments of the call the source begins with
InArguments(off) == IsCall /\ ArgStart <= off /\ off <= LogicalEnd(0)

Redirect(c) ==
    IF c = "<" THEN {"READ_FROM"}
    ELSE IF c = ">" THEN {"WRITE_TO", "APPEND_TO"}
    ELSE {"PIPE"}
Plain(c) ==
    IF c = "<" THEN {"LSS", "LEQ", "SHL"}
    ELSE IF c = ">" THEN {"GTR", "GEQ", "SHR"}
    ELSE {"OR", "LOR", "OR_ASSIGN"}

\* C18: the scanner is in Argument mode only for the tokens from the one after the
\* name of a call  @name / #name  to the end of that logical line; a token that
\* begins with < > or | is read-from, write-to / append-to or pipe there, and a
\* comparison, shift or bitwise-or on the lines after it that have no call.
C18_ArgumentMode ==
    \A k \in DOMAIN obs.toks :
        LET t == obs.toks[k]
        IN  /\ scanArgument \in t.mode => InArguments(t.offset)
            /\ (t.offset < SrcLen /\ CharAt(t.offset) \in {"<", ">", "|"}
                    /\ t.tok \notin {"STRING", "STRING_ITP", "COMMENT"}) =>
                  t.tok \in (IF InArguments(t.offset) THEN Redirect(CharAt(t.offset))
                                                      ELSE Plain(CharAt(t.offset)))

\* the offsets of the quote characters of the source: each source has one string
\* literal at most, with no quote inside it
Quotes == {off \in 0..(SrcLen - 1) : CharAt(off) \in {DQ, SQ, BQ}}
HasString == Quotes # {}
Min(S) == CHOOSE x \in S : \A y \in S : x <= y
Max(S) == CHOOSE x \in S : \A y \in S : x >= y
OpenQuote == Min(Quotes)
CloseQuote == Max(Quotes)
\* the literal has a $ between its quotes
HasDollar == \E off \in OpenQuote..CloseQuote : CharAt(off) = "$"
\* the latest Scan has read the closing quote of the literal
JustClosed ==
    /\ HasString /\ scanner.offset = CloseQuote + 1 /\ obs.toks # <<>>
    /\ obs.toks[Len(obs.toks)].tok \in {"STRING", "STRING_ITP"}

\* C19: the scanner is in string-interpolation mode only inside a string literal
\* that contains a $; once the closing quote is read, whatever the quote form, the
\* interpolation modes are cleared and the mode is again the one that held before
\* the literal.
C19_InterpolationMode ==
    /\ scanStringITP \in scanner.mode =>
            /\ HasString /\ HasDollar
            /\ OpenQuote < scanner.offset /\ scanner.offset <= CloseQuote
    /\ (HasString /\ scanner.offset > CloseQuote) =>
            scanner.mode \cap {scanStringITP, scanAllowExpr} = {}
    /\ JustClosed =>
            scanner.mode = IF IsCall THEN {scanNormal, scanArgument} ELSE {scanNormal}

\* the source  a = [1,2,b,{1:2}]  followed by a newline, as TestGeneralScanner has it
ArrayMapSrc ==
    <<"a", " ", "=", " ", "[", "1", ",", "2", ",", "b", ",", "{", "1", ":", "2", "}", "]", NL>>
ArrayMapTokens ==
    << <<"IDENT", "a">>, <<"ASSIGN", "=">>, <<"LBRACK", "[">>, <<"INTEGER", "1">>,
       <<"COMMA", ",">>, <<"INTEGER", "2">>, <<"COMMA", ",">>, <<"IDENT", "b">>,
       <<"COMMA", ",">>, <<"LBRACE", "{">>, <<"INTEGER", "1">>, <<"COLON", ":">>,
       <<"INTEGER", "2">>, <<"RBRACE", "}">>, <<"RBRACK", "]">>, <<"LF", NL>> >>
IsArrayMapSrc == TheSrc \in {ArrayMapSrc, <<"\t">> \o ArrayMapSrc}

\* C20: scanning  a = [1,2,b,{1:2}]  and its newline yields IDENT a, ASSIGN, LBRACK,
\* INTEGER 1, COMMA, INTEGER 2, COMMA, IDENT b, COMMA, LBRACE, INTEGER 1, COLON,
\* INTEGER 2, RBRACE, RBRACK, LF in this order, and EOF on every call after that.
C20_ArrayMapTokens ==
    IsArrayMapSrc =>
        \A k \in DOMAIN obs.toks :
            <<obs.toks[k].tok, obs.toks[k].lit>> =
                IF k <= Len(ArrayMapTokens) THEN ArrayMapTokens[k] ELSE <<"EOF", "">>

\* the whole source has been scanned and Scan was called again after the first EOF
C20_Witness ==
    /\ IsArrayMapSrc
    /\ Len(obs.toks) = Len(ArrayMapTokens) + MaxEOF
    /\ scanner.errs = <<>>

-----------------------------------------------------------------------------
(* Properties of the parser *)

\* the source of the main file
MainSrc == parser.files[MainFile]
IsChainSource == MainSrc \in ChainSources
\* the operands of  x = A op B op C  stand at the offsets 4, 8 and 12, the operators
\* at 6 and 10
OperandAt(offs) == ParseInt(MainSrc[offs + 1])
Compares(opChar, a, b) == IF opChar = "<" THEN a < b ELSE a > b
\* (A op B) && (B op C)
ChainTruth ==
    /\ Compares(MainSrc[7], OperandAt(4), OperandAt(8))
    /\ Compares(MainSrc[11], OperandAt(8), OperandAt(12))
\* how many times o occurs in q
Count(q, o) == Cardinality({i \in DOMAIN q : q[i] = o})

\* C14: the chained comparison  A op B op C  evaluates to the boolean
\* (A op B) && (B op C), and one evaluation of the chain calls Evaluate of the middle
\* operand B exactly once.
C14_ChainedComparison ==
    (parser.pc = "evaluated" /\ IsChainSource) =>
        /\ obs.evals[1].err = Nil
        /\ obs.evals[1].k = "Bool"
        /\ obs.evals[1].v = ChainTruth
        /\ Count(obs.evals[1].log, 8) = 1

\* C15: parse never comes to repeat an iteration that consumes no token, in a block
\* or in an array literal, and when it returns it returns the diagnostics recorded
\* and no cook if there is at least one diagnostic, the cook otherwise.
C15_ParsingTerminates ==
    /\ parser.spin = ""
    /\ parser.pc = "done" =>
          IF parser.errs # <<>>
          THEN ~parser.ret.hasCook /\ parser.ret.err = parser.errs
          ELSE parser.ret.hasCook /\ parser.ret.cook = parser.cook /\ parser.ret.err = <<>>

\* the file systems in which every file has its include directives at its top, names
\* files that exist, and has no syntax error
IsIncludeInput == DOMAIN obs.incl = {MainFile} \cup Included
\* the files the main file includes, directly or through an included file
RECURSIVE IncludedFrom(_)
IncludedFrom(S) ==
    LET T == S \cup UNION {{obs.incl[f][i] : i \in DOMAIN obs.incl[f]} : f \in S}
    IN  IF T = S THEN S ELSE IncludedFrom(T)
ToParse == IncludedFrom({MainFile})

\* C16: when parse returns, every file the main file includes, directly or through
\* an included file, was parsed exactly once and its statement is in the cook once,
\* and the include directives that name a file a second time recorded no diagnostic.
C16_IncludedOnce ==
    (parser.pc = "done" /\ IsIncludeInput) =>
        /\ \A f \in ToParse : Count(obs.inits, f) = 1
        /\ \A f \in ToParse : Cardinality({i \in DOMAIN parser.cook : parser.cook[i].File = f}) = 1
        /\ parser.errs = <<>>

-----------------------------------------------------------------------------
(* Variable lookup and the process environment *)

\* scopes one context allocates in the runs explored
MaxScopes == 3

\* a string with its reflect.Kind
StrVal(s) == [k |-> "String", v |-> s]

\* os.Getenv: the empty string for a variable that is not set
Getenv(e, name) == IF name \in DOMAIN e THEN e[name] ELSE ""

\* a variant of the lookup's last step that hands out what it read from the environment
EnvResultReturned(e, name) ==
    IF Getenv(e, name) # "" THEN [val |-> StrVal(Getenv(e, name)), fromEnv |-> TRUE]
    ELSE [val |-> NilVal, fromEnv |-> FALSE]

\* the tryEnv part of xScope.GetVariable: the named results are assigned from the
\* environment, then the function returns the explicit operands nil, 0, false
tryEnv(e, name) ==
    LET named == IF Getenv(e, name) # ""
                 THEN [val |-> StrVal(Getenv(e, name)), fromEnv |-> TRUE]
                 ELSE [val |-> StrVal(""), fromEnv |-> FALSE]
    IN  [val |-> NilVal, fromEnv |-> FALSE]

\* xScope.GetVariable with its three results, on the scope at position d of the
\* chain sc, in the environment e
RECURSIVE xScopeGetVariable(_, _, _, _)
xScopeGetVariable(sc, d, name, e) ==
    IF name \notin DOMAIN sc[d].vars
    THEN IF d = 1 THEN tryEnv(e, name)
         ELSE LET r == xScopeGetVariable(sc, d - 1, name, e)
              IN  IF r.val.k # "Invalid" THEN r ELSE tryEnv(e, name)
    ELSE [val |-> sc[d].vars[name], fromEnv |-> FALSE]

\* xContext.GetVariable
xContextGetVariable(c, name, e) == xScopeGetVariable(c.scope, Len(c.scope), name, e)

\* the names looked up and the strings the environment may hold for them
EnvNames == {"HOME", "x"}
EnvStrings == {"", "/root"}
\* the values the program binds
BoundValues == {IntVal(1), StrVal("s")}

InitEnv ==
    /\ prog = NoProgram
    /\ names = <<>>
    /\ pargs = <<>>
    /\ ctx = renewContext
    /\ nid = 1
    /\ stack = <<>>
    /\ ret = NoRet
    /\ result = "idle"
    /\ obs = Obs0(prog)
    /\ scanner = NoScanner
    /\ parser = NoParser
    /\ env \in [EnvNames -> EnvStrings]
    /\ heap = NoHeap

\* a block is entered
EnvEnterBlock ==
    /\ nid < MaxScopes
    /\ ctx' = EnterBlock(ctx, nid, FALSE, "")
    /\ nid' = nid + 1
    /\ UNCHANGED <<prog, names, pargs, stack, ret, result, obs, scanner, parser, env, heap>>

\* the innermost block is left
EnvExitBlock ==
    /\ ~ExitPanics(ctx, -1)
    /\ ctx' = ExitBlock(ctx, -1)
    /\ UNCHANGED <<prog, names, pargs, nid, stack, ret, result, obs, scanner, parser, env, heap>>

\* xContext.SetVariable(name, value, kind, nil) on the current scope
EnvSetVariable ==
    /\ \E name \in EnvNames, val \in BoundValues : ctx' = CtxSet(ctx, name, val)
    /\ UNCHANGED <<prog, names, pargs, nid, stack, ret, result, obs, scanner, parser, env, heap>>

\* xContext.GetVariable(name) on the current scope
EnvGetVariable ==
    /\ \E name \in EnvNames :
          obs' = [obs EXCEPT !.gets = <<[name |-> name, scope |-> ctx.scope,
                                          got |-> xContextGetVariable(ctx, name, env)]>>]
    /\ UNCHANGED <<prog, names, pargs, ctx, nid, stack, ret, result, scanner, parser, env, heap>>

NextEnv == EnvEnterBlock \/ EnvExitBlock \/ EnvSetVariable \/ EnvGetVariable

SpecEnv == InitEnv /\ [][NextEnv]_vars

-----------------------------------------------------------------------------
(* Properties of the variable lookup *)

\* the scopes of the chain sc that bind the name
BoundIn(sc, name) == {d \in 1..Len(sc) : name \in DOMAIN sc[d].vars}

\* the lookup fell back to the environment variable the process has set
EnvFallback(g) ==
    /\ g.got.fromEnv
    /\ g.got.val.k = "String"
    /\ g.got.val.v = env[g.name]

\* the lookup returned the binding of the nearest scope, and not the environment
NearestBinding(g) ==
    LET d == CHOOSE d \in BoundIn(g.scope, g.name) :
                 \A o \in BoundIn(g.scope, g.name) : o <= d
    IN  g.got = [val |-> g.scope[d].vars[g.name], fromEnv |-> FALSE]

\* C21: GetVariable(name), for a name bound in no scope of the chain while the
\* environment variable of that name is a non-empty string, returns that string
\* with kind String and fromEnv = true; a name bound in a scope of the chain is
\* returned from the nearest such scope and never from the environment
C21_EnvFallback ==
    \A i \in DOMAIN obs.gets :
        LET g == obs.gets[i]
        IN  IF BoundIn(g.scope, g.name) = {}
            THEN env[g.name] # "" => EnvFallback(g)
            ELSE NearestBinding(g)

\* the second half of C21 alone: a bound name comes from the nearest scope
C21_BoundPart ==
    \A i \in DOMAIN obs.gets :
        BoundIn(obs.gets[i].scope, obs.gets[i].name) # {} => NearestBinding(obs.gets[i])

-----------------------------------------------------------------------------
(* Successive executions of one program *)

\* a call has returned (a panic that nothing recovers ends the process instead)
Returned == result \notin {"idle", "running", "panic"}

\* cook.ExecuteWithTarget called again, with the same arguments and targets, on the
\* cook whose previous call has returned
ExecuteWithTargetAgain ==
    /\ Returned
    /\ obs.prev = <<>>
    /\ UNCHANGED <<scanner, parser, env, heap>>
    /\ ctx' = BindArgs(renewContext, pargs, DOMAIN pargs)
    /\ nid' = 1
    /\ stack' = <<ExecFrame, BlockFrame(prog.Insts)>>
    /\ ret' = NoRet
    /\ result' = "running"
    /\ obs' = Log(Log([Obs0(prog) EXCEPT !.prev = <<[scope |-> ctx.scope, result |-> result,
                                               branches |-> obs.branches]>>],
                      Event("bind", "bind", "", 0)), Event("begin", "top", "", 0))
    /\ UNCHANGED <<prog, names, pargs>>

\* the target lists of the calls repeated
TwiceNames == {<<"t3", "t1">>, <<TargetAll>>}

InitTwice ==
    /\ prog \in Programs
    /\ names \in TwiceNames
    /\ pargs = [n \in {"INPUT"} |-> IntVal(3)]
    /\ ctx = renewContext
    /\ nid = 1
    /\ stack = <<>>
    /\ ret = NoRet
    /\ result = "idle"
    /\ obs = Obs0(prog)
    /\ scanner = NoScanner
    /\ parser = NoParser
    /\ env = NoEnv
    /\ heap = NoHeap

NextTwice == Next \/ ExecuteWithTargetAgain

SpecTwice == InitTwice /\ [][NextTwice]_vars

-----------------------------------------------------------------------------
(* Properties of successive executions *)

\* the names bound in some scope of the chain sc
BoundNames(sc) == UNION {DOMAIN sc[d].vars : d \in 1..Len(sc)}

\* the second call has just renewed the context and bound the arguments
SecondBegun ==
    /\ obs.prev # <<>>
    /\ Len(stack) = 2 /\ Top.f = "block" /\ Top.i = 1 /\ ~ret.set
    /\ Len(obs.log) = 2

\* the conditions of the if statements came out in the second call as in the first
\* (the programs explored leave their conditions open)
SameBranches == obs.prev # <<>> /\ obs.branches = obs.prev[1].branches

\* C22: every top-level execution starts from a fresh context: a variable set during
\* one call of ExecuteWithTarget is not visible in the next call on the same program,
\* and two successive executions with the same arguments and targets, in which the
\* conditions come out alike, end with the same result and the same variable values
C22_FreshContext ==
    /\ SecondBegun => BoundNames(ctx.scope) = DOMAIN pargs
    /\ (SameBranches /\ Returned) =>
          /\ result = obs.prev[1].result
          /\ ctx.scope = obs.prev[1].scope

\* the first call set variables, and the second call has returned
C22_Witness ==
    /\ SameBranches
    /\ Returned
    /\ BoundNames(obs.prev[1].scope) \ DOMAIN pargs # {}

-----------------------------------------------------------------------------
(* The resolution of a call *)

\* the names called, declared as targets and declared as functions
CallNames == {"print", "sample", "deploy"}
CallArgs == {<<>>, <<5>>, <<7, 8>>}

\* the cook after AddTarget was called for the names of the sequence ns
RECURSIVE DeclareTargets(_, _, _)
DeclareTargets(c, ns, i) ==
    IF i > Len(ns) THEN c
    ELSE DeclareTargets(AddTarget(c, [File |-> 1, Insts |-> <<Assign("t", i)>>], ns[i]).cook,
                        ns, i + 1)

\* the sequences without repetition over the set S
RECURSIVE Orders(_)
Orders(S) ==
    IF S = {} THEN {<<>>}
    ELSE UNION {{<<n>> \o o : o \in Orders(S \ {n})} : n \in S}

\* a program that declares the targets ts, in that order, and the functions fs, and
\* whose top-level block is one call
CallProgram(ts, fs, name, args) ==
    [DeclareTargets(NewCook, ts, 1) EXCEPT
        !.Insts = <<Call(name, args)>>,
        !.fns = [n \in fs |-> Function(<<"p">>, <<Assign("f", 1)>>)]]

InitCall ==
    /\ \E T \in SUBSET {"print", "sample"}, fs \in SUBSET {"print", "sample"},
          name \in CallNames, args \in CallArgs :
          \E ts \in Orders(T) : prog = CallProgram(ts, fs, name, args)
    /\ names = <<>>
    /\ pargs = <<>>
    /\ ctx = renewContext
    /\ nid = 1
    /\ stack = <<BlockFrame(prog.Insts)>>
    /\ ret = NoRet
    /\ result = "running"
    /\ obs = Obs0(prog)
    /\ scanner = NoScanner
    /\ parser = NoParser
    /\ env = NoEnv
    /\ heap = NoHeap

EvaluateCall ==
    \/ CallEvaluate
    \/ TargetReturn
    \/ FunctionReturn
    \/ AssignStatement
    \/ BlockResume
    \/ BlockEnd

SpecCall == InitCall /\ [][EvaluateCall]_vars

-----------------------------------------------------------------------------
(* Properties of the resolution of a call *)

\* a target of that name is declared
TargetDeclared(name) == \E i \in 1..Len(prog.targetIndexes) : prog.targetIndexes[i].name = name

\* C23: a call resolves its name in a fixed priority order: a declared target of that
\* name is invoked; otherwise a registered built-in function of that name is applied;
\* otherwise a declared function of that name is invoked; and when none of the three
\* exists the call fails with an error
C23_CallPriority ==
    \A i \in DOMAIN obs.resolved :
        LET c == obs.resolved[i]
        IN  /\ c.via = (IF TargetDeclared(c.name) THEN "target"
                        ELSE IF c.name \in FuncStore THEN "command"
                        ELSE IF c.name \in DOMAIN prog.fns THEN "function"
                        ELSE "none")
            /\ c.via = "none" => obs.firstErr = ErrNoTarget

\* a call of a name that is a target, a built-in and a function has invoked the target
C23_Witness ==
    /\ obs.resolved # <<>>
    /\ obs.resolved[1].name = "print"
    /\ TargetDeclared("print")
    /\ "print" \in DOMAIN prog.fns
    /\ obs.resolved[1].via = "target"
    /\ Len(stack) = 3 /\ Top.f = "block" /\ Top.stmts = prog.targetIndexes[GetTarget(prog, "print")].Insts

-----------------------------------------------------------------------------
(* Delete *)

\* elements of the arrays explored, and nodes in the index list of one delete
MaxArray == 5
MaxIndexes == 3

\* an array ([]any) and a map (map[any]any) with their reflect.Kind
ArrVal(a) == [k |-> "Slice", v |-> a]
MapVal(m) == [k |-> "Map", v |-> m]

ErrOnlyArrayOrMap == "only array or map support delete"
ErrDeleteRange == "delete indexes out range"
ErrRangeOut == "range of out range array length"

\* what an expression evaluated on its own returns: value, error, whether it panicked,
\* and the context it leaves
Result(val, err, c) == [val |-> val, err |-> err, panic |-> FALSE, ctx |-> c]
Panicked(c) == [val |-> NilVal, err |-> Nil, panic |-> TRUE, ctx |-> c]

\* sort.Ints
RECURSIVE InsertSorted(_, _)
InsertSorted(s, n) ==
    IF s = <<>> THEN <<n>>
    ELSE IF n <= s[1] THEN <<n>> \o s
    ELSE <<s[1]>> \o InsertSorted(Tail(s), n)

RECURSIVE SortInts(_)
SortInts(s) == IF s = <<>> THEN <<>> ELSE InsertSorted(SortInts(Tail(s)), s[1])

\* indexes(ctx, ns...): the integer literals of the nodes, sorted
indexes(ns) == SortInts(ns)

\* reflect.AppendSlice(vv.Slice(0, i), vv.Slice(i+1, vv.Len())) on an array of length
\* at most the capacity; Slice(i+1, Len) panics when i+1 > Len (ok is FALSE then)
RemoveAt(a, i) ==
    IF i < 0 \/ i + 1 > Len(a) THEN [ok |-> FALSE, a |-> a]
    ELSE [ok |-> TRUE, a |-> SubSeq(a, 1, i) \o SubSeq(a, i + 2, Len(a))]

\* for i := range ids { ri := len(ids) - 1 - i; vv = AppendSlice(...) }: the positions
\* ids[ri] are removed from the last of the sorted list to the first
RECURSIVE DeleteLoop(_, _, _)
DeleteLoop(a, ids, ri) ==
    IF ri < 1 THEN [ok |-> TRUE, a |-> a]
    ELSE LET r == RemoveAt(a, ids[ri])
         IN  IF r.ok THEN DeleteLoop(r.a, ids, ri - 1) ELSE r

\* for i := se[1]; i >= se[0]; i-- { vv = AppendSlice(...) }
RECURSIVE DeleteRange(_, _, _)
DeleteRange(a, i, lo) ==
    IF i < lo THEN [ok |-> TRUE, a |-> a]
    ELSE LET r == RemoveAt(a, i)
         IN  IF r.ok THEN DeleteRange(r.a, i - 1, lo) ELSE r

\* vv.SetMapIndex(key, reflect.Value{}) for every key of the list
DeleteKeys(m, ks) == [key \in DOMAIN m \ {ks[i] : i \in DOMAIN ks} |-> m[key]]

\* the node  delete X[Indexes]  or  delete X[Indexes[0]..End]  (End is <<>> or <<n>>)
Delete(x, ixs, end) == [X |-> x, Indexes |-> ixs, End |-> end]

\* Delete.Evaluate
DeleteEvaluate(c, d) ==
    LET x == CtxGet(c, d.X)
    IN  IF x.k = "Slice"
        THEN IF d.End # <<>>
             THEN LET se == indexes(<<d.Indexes[1], d.End[1]>>)
                  IN  IF se[1] >= 0 /\ se[2] < Len(x.v)
                      THEN LET r == DeleteRange(x.v, se[2], se[1])
                           IN  IF r.ok THEN Result(NilVal, Nil, CtxSet(c, d.X, ArrVal(r.a)))
                               ELSE Panicked(c)
                      ELSE Result(NilVal, ErrRangeOut, c)
             ELSE LET ids == indexes(d.Indexes)
                  IN  IF ids = <<>> THEN Panicked(c)
                      ELSE IF ids[1] < 0 \/ ids[Len(ids)] >= Len(x.v)
                      THEN Result(NilVal, ErrDeleteRange, c)
                      ELSE LET r == DeleteLoop(x.v, ids, Len(ids))
                           IN  IF r.ok THEN Result(NilVal, Nil, CtxSet(c, d.X, ArrVal(r.a)))
                               ELSE Panicked(c)
        ELSE IF x.k = "Map"
        THEN IF d.End # <<>> THEN Panicked(c)
             ELSE Result(NilVal, Nil, CtxSet(c, d.X, MapVal(DeleteKeys(x.v, d.Indexes))))
        ELSE Result(NilVal, ErrOnlyArrayOrMap, c)

\* the array of n elements whose element at position i (from 0) is 10 + i
ArrayOf(n) == [i \in 1..n |-> IntVal(9 + i)]
\* the map with the keys 0..n-1
MapOf(n) == [key \in 0..(n - 1) |-> IntVal(20 + key)]

\* the index lists explored
RECURSIVE Lists(_, _)
Lists(S, n) == IF n = 0 THEN {<<>>} ELSE Lists(S, n - 1) \cup {<<x>> \o l : x \in S, l \in {m \in Lists(S, n - 1) : Len(m) = n - 1}}

IndexLists == Lists(-1..MaxArray, MaxIndexes) \ {<<>>}

\* the delete nodes explored
Deletes ==
    {Delete(x, ixs, <<>>) : x \in {"a", "m", "n", "none"}, ixs \in IndexLists}
    \cup {Delete("a", <<lo>>, <<hi>>) : lo \in -1..MaxArray, hi \in -1..MaxArray}

\* a context that binds an array a, a map m and an integer n
InitDelete ==
    /\ prog = NoProgram
    /\ names = <<>>
    /\ pargs = <<>>
    /\ \E n \in 1..MaxArray :
          ctx = CtxSet(CtxSet(CtxSet(renewContext, "a", ArrVal(ArrayOf(n))),
                              "m", MapVal(MapOf(n))), "n", IntVal(n))
    /\ nid = 1
    /\ stack = <<>>
    /\ ret = NoRet
    /\ result = "running"
    /\ obs = Obs0(prog)
    /\ scanner = NoScanner
    /\ parser = NoParser
    /\ env = NoEnv
    /\ heap = NoHeap

\* one delete expression is evaluated
EvaluateDelete ==
    /\ result = "running"
    /\ obs.op = <<>>
    /\ \E d \in Deletes :
          LET r == DeleteEvaluate(ctx, d)
          IN  /\ ctx' = r.ctx
              /\ result' = IF r.panic THEN "panic" ELSE r.err
              /\ obs' = [obs EXCEPT !.op = <<[node |-> d, before |-> ctx, val |-> r.val]>>]
    /\ UNCHANGED <<prog, names, pargs, nid, stack, ret, scanner, parser, env, heap>>

SpecDelete == InitDelete /\ [][EvaluateDelete]_vars

-----------------------------------------------------------------------------
(* Properties of Delete *)

\* the elements of a at the positions (from 0) outside P, in their order
RECURSIVE Keep(_, _, _)
Keep(a, P, i) ==
    IF i > Len(a) THEN <<>>
    ELSE (IF (i - 1) \in P THEN <<>> ELSE <<a[i]>>) \o Keep(a, P, i + 1)

\* a delete of a list of indices on the array variable has been evaluated
DeletedByList ==
    /\ obs.op # <<>>
    /\ obs.op[1].node.X = "a"
    /\ obs.op[1].node.End = <<>>

\* the positions the list names
Positions(ixs) == {ixs[i] : i \in DOMAIN ixs}

\* what C24 asks of a delete of the indices ixs on the array that was a before
DeleteAsSpecified(ixs, a) ==
    IF \A p \in Positions(ixs) : 0 <= p /\ p < Len(a)
    THEN /\ result = Nil
         /\ CtxGet(ctx, "a") = ArrVal(Keep(a, Positions(ixs), 1))
    ELSE /\ result \notin {Nil, "panic", "running"}
         /\ CtxGet(ctx, "a") = ArrVal(a)

\* C24: delete applied to an array variable with any non-empty list of indices, in
\* any order, removes exactly the elements at those positions and keeps the others in
\* their original order; if an index is negative or >= the length the operation is an
\* error and the array is left unchanged
C24_DeleteIndexes ==
    DeletedByList =>
        DeleteAsSpecified(obs.op[1].node.Indexes, CtxGet(obs.op[1].before, "a").v)

\* C24 restricted to lists that name no position twice
C24_DistinctIndexes ==
    (DeletedByList /\ Cardinality(Positions(obs.op[1].node.Indexes)) = Len(obs.op[1].node.Indexes))
        => DeleteAsSpecified(obs.op[1].node.Indexes, CtxGet(obs.op[1].before, "a").v)

-----------------------------------------------------------------------------
(* MergeMap *)

\* the keys of the maps explored are 1..MaxKeys
MaxKeys == 3

ErrNotMap == "is not a map"
ErrKeyExist == "map: key is already exist, use '?' to ignore the error"
ErrMergeOp == "invalid operator use with merge map syntax, only += operator is allowed"

\* the node  < Value ,  ? Value  or  Value  on the right of +=  (Op is "<", "?" or "")
MergeMap(op, value) == [Op |-> op, Value |-> value]

\* a variant of the step that lets ? overwrite as < does
MergeKeyOverwrites(op, m, key, val) ==
    IF op \in {"<", "?"} THEN [err |-> Nil, m |-> Bind(m, key, val)]
    ELSE IF key \notin DOMAIN m THEN [err |-> Nil, m |-> Bind(m, key, val)]
    ELSE [err |-> ErrKeyExist, m |-> m]

\* one round of the loop of MergeMap.Set, for the pair (key, val) of the source, on
\* the target map m
MergeKey(op, m, key, val) ==
    IF op = "<" THEN [err |-> Nil, m |-> Bind(m, key, val)]
    ELSE IF key \notin DOMAIN m THEN [err |-> Nil, m |-> Bind(m, key, val)]
    ELSE IF op # "?" THEN [err |-> ErrKeyExist, m |-> m]
    ELSE [err |-> Nil, m |-> m]

\* for mitem.Next() { ... }: the pairs of the source src are visited in the order the
\* map range yields them (order is one of the orders of its keys)
RECURSIVE MergeLoop(_, _, _, _, _)
MergeLoop(op, m, src, order, i) ==
    IF i > Len(order) THEN [err |-> Nil, m |-> m]
    ELSE LET r == MergeKey(op, m, order[i], src[order[i]])
         IN  IF r.err # Nil THEN r ELSE MergeLoop(op, r.m, src, order, i + 1)

\* MergeMap.Set(ctx, setVal, kind): setVal is the value of the assigned variable; the
\* target map is written in place, so the variable sees every key written
MergeMapSet(c, name, mm, setVal, order) ==
    IF setVal.k # "Map" THEN Result(NilVal, ErrNotMap, c)
    ELSE LET v == CtxGet(c, mm.Value)
         IN  IF v.k # "Map" THEN Result(NilVal, ErrNotMap, c)
             ELSE LET r == MergeLoop(mm.Op, setVal.v, v.v, order, 1)
                  IN  Result(NilVal, r.err, CtxSet(c, name, MapVal(r.m)))

\* AssignStatement.Evaluate whose Value is a MergeMap node
AssignMergeMap(c, name, aop, mm, order) ==
    IF aop # "+=" THEN Result(NilVal, ErrMergeOp, c)
    ELSE MergeMapSet(c, name, mm, CtxGet(c, name), order)

\* the maps explored: target values are 10 + key, source values 20 + key
TargetMaps == {[key \in K |-> IntVal(10 + key)] : K \in SUBSET (1..(MaxKeys - 1))}
SourceMaps == {[key \in K |-> IntVal(20 + key)] : K \in SUBSET (1..MaxKeys)}

\* a context that binds a target map t, a source map s and an integer n
InitMerge ==
    /\ prog = NoProgram
    /\ names = <<>>
    /\ pargs = <<>>
    /\ \E t \in TargetMaps, src \in SourceMaps :
          ctx = CtxSet(CtxSet(CtxSet(renewContext, "t", MapVal(t)), "s", MapVal(src)),
                       "n", IntVal(1))
    /\ nid = 1
    /\ stack = <<>>
    /\ ret = NoRet
    /\ result = "running"
    /\ obs = Obs0(prog)
    /\ scanner = NoScanner
    /\ parser = NoParser
    /\ env = NoEnv
    /\ heap = NoHeap

\* the keys the range over the value of the variable yields, in any order
RangeOrders(c, name) ==
    IF CtxGet(c, name).k = "Map" THEN Orders(DOMAIN CtxGet(c, name).v) ELSE {<<>>}

\* one assignment  name aop op value  is evaluated
EvaluateMerge ==
    /\ result = "running"
    /\ obs.op = <<>>
    /\ \E name \in {"t", "n", "none"}, aop \in {"+=", "="}, op \in {"<", "?", ""},
          value \in {"s", "n"} :
          \E order \in RangeOrders(ctx, value) :
             LET mm == MergeMap(op, value)
                 r == AssignMergeMap(ctx, name, aop, mm, order)
             IN  /\ ctx' = r.ctx
                 /\ result' = r.err
                 /\ obs' = [obs EXCEPT !.op = <<[node |-> mm, name |-> name, aop |-> aop,
                                                 before |-> ctx]>>]
    /\ UNCHANGED <<prog, names, pargs, nid, stack, ret, scanner, parser, env, heap>>

SpecMerge == InitMerge /\ [][EvaluateMerge]_vars

-----------------------------------------------------------------------------
(* Properties of MergeMap *)

\* a merge of the map s into the map t has been evaluated
Merged ==
    /\ obs.op # <<>>
    /\ obs.op[1].name = "t" /\ obs.op[1].aop = "+=" /\ obs.op[1].node.Value = "s"

\* the maps before the merge, and the target after it
TargetBefore == CtxGet(obs.op[1].before, "t").v
SourceBefore == CtxGet(obs.op[1].before, "s").v
TargetAfter == CtxGet(ctx, "t").v

\* the union of two maps in which the map first wins on the keys of both
Union(first, second) ==
    [key \in DOMAIN first \cup DOMAIN second |->
        IF key \in DOMAIN first THEN first[key] ELSE second[key]]

\* C25: MergeMap merges the source into the target according to its operator: with <
\* every source key is written and overwrites the target's value on conflict; with ?
\* only the source keys absent from the target are written and conflicting keys keep
\* the target's value; with the bare += form a key present in both maps makes the
\* merge fail with an error
C25_MergeMap ==
    Merged =>
        /\ obs.op[1].node.Op = "<" =>
              result = Nil /\ TargetAfter = Union(SourceBefore, TargetBefore)
        /\ obs.op[1].node.Op = "?" =>
              result = Nil /\ TargetAfter = Union(TargetBefore, SourceBefore)
        /\ obs.op[1].node.Op = "" =>
              IF DOMAIN TargetBefore \cap DOMAIN SourceBefore # {}
              THEN result = ErrKeyExist
              ELSE result = Nil /\ TargetAfter = Union(TargetBefore, SourceBefore)

\* a merge with ? of a source that holds a key of the target and a key new to it
C25_Witness ==
    /\ Merged
    /\ obs.op[1].node.Op = "?"
    /\ DOMAIN TargetBefore \cap DOMAIN SourceBefore # {}
    /\ DOMAIN SourceBefore \ DOMAIN TargetBefore # {}
    /\ result = Nil

-----------------------------------------------------------------------------
(* TypeCast *)

\* the integers the strings explored may hold are -MaxInt..MaxInt
MaxInt == 50

BoolVal(b) == [k |-> "Bool", v |-> b]
\* a float64 given in tenths: Tenths(45) is 4.5
Tenths(t) == [k |-> "Float64", v |-> t]

ErrCast == "cannot cast to type"

Abs(n) == IF n < 0 THEN -n ELSE n

\* strconv.FormatInt(n, 10)
FormatInt(n) == ToString(n)

\* strconv.ParseInt(s, 10, 64) on the strings explored
ParseIntString(s) ==
    IF \E n \in -MaxInt..MaxInt : FormatInt(n) = s
    THEN [ok |-> TRUE, v |-> CHOOSE n \in -MaxInt..MaxInt : FormatInt(n) = s]
    ELSE [ok |-> FALSE, v |-> 0]

\* strconv.FormatFloat(f, 'g', -1, 64) of the float of t tenths
FormatFloat(t) ==
    (IF t < 0 THEN "-" ELSE "") \o ToString(Abs(t) \div 10) \o
    (IF Abs(t) % 10 = 0 THEN "" ELSE "." \o ToString(Abs(t) % 10))

\* strconv.ParseFloat(s, 64) on the strings explored, in tenths
ParseFloatString(s) ==
    IF \E t \in (-10 * MaxInt)..(10 * MaxInt) : FormatFloat(t) = s
    THEN [ok |-> TRUE, v |-> CHOOSE t \in (-10 * MaxInt)..(10 * MaxInt) : FormatFloat(t) = s]
    ELSE [ok |-> FALSE, v |-> 0]

\* strconv.ParseBool
ParseBoolString(s) ==
    IF s \in {"1", "t", "T", "TRUE", "true", "True"} THEN [ok |-> TRUE, v |-> TRUE]
    ELSE IF s \in {"0", "f", "F", "FALSE", "false", "False"} THEN [ok |-> TRUE, v |-> FALSE]
    ELSE [ok |-> FALSE, v |-> FALSE]

\* strconv.FormatBool
FormatBool(b) == IF b THEN "true" ELSE "false"

\* int64(f) of the float of t tenths: the fraction is cut off
TruncateFloat(t) == IF t < 0 THEN -(Abs(t) \div 10) ELSE t \div 10

\* the node  To(X)
TypeCast(to, x) == [To |-> to, X |-> x]

\* TypeCast.Evaluate: value, kind and error returned. In the integer case the test
\* for a string reads the result k, which is still reflect.Invalid there, so
\* resultKind is "Invalid" at that point whatever the operand is
TypeCastEvaluate(c, tc) ==
    LET x == CtxGet(c, tc.X)
        iv == x.v
        ik == x.k
        tk == tc.To
        resultKind == "Invalid"
        failed == Result(NilVal, ErrCast, c)
    IN  IF tk # ik
        THEN IF tk = "Int64"
             THEN IF ik = "Float64" THEN Result(IntVal(TruncateFloat(iv)), Nil, c)
                  ELSE IF resultKind = "String"
                  THEN IF ParseIntString(iv).ok
                       THEN Result(IntVal(ParseIntString(iv).v), Nil, c)
                       ELSE failed
                  ELSE failed
             ELSE IF tk = "Float64"
             THEN IF ik = "Int64" THEN Result(Tenths(10 * iv), Nil, c)
                  ELSE IF ik = "String" /\ ParseFloatString(iv).ok
                  THEN Result(Tenths(ParseFloatString(iv).v), Nil, c)
                  ELSE failed
             ELSE IF tk = "Bool"
             THEN IF ik = "String" /\ ParseBoolString(iv).ok
                  THEN Result(BoolVal(ParseBoolString(iv).v), Nil, c)
                  ELSE failed
             ELSE IF tk = "String"
             THEN IF ik = "Int64" THEN Result(StrVal(FormatInt(iv)), Nil, c)
                  ELSE IF ik = "Float64" THEN Result(StrVal(FormatFloat(iv)), Nil, c)
                  ELSE IF ik = "Bool" THEN Result(StrVal(FormatBool(iv)), Nil, c)
                  ELSE failed
             ELSE failed
        ELSE Result(x, Nil, c)

\* the values cast
CastValues ==
    {IntVal(n) : n \in {0, 7, 42, -3}}
    \cup {Tenths(t) : t \in {0, 40, 45, -25}}
    \cup {BoolVal(b) : b \in BOOLEAN}
    \cup {StrVal(st) : st \in {"42", "-3", "0", "1", "4.5", "true", "false", "abc", ""}}
    \cup {ArrVal(ArrayOf(1))}

\* the kinds of the types a cast may name
CastKinds == {"Int64", "Float64", "Bool", "String", "Slice"}

\* a context that binds x to one of the values
InitCast ==
    /\ prog = NoProgram
    /\ names = <<>>
    /\ pargs = <<>>
    /\ \E val \in CastValues : ctx = CtxSet(renewContext, "x", val)
    /\ nid = 1
    /\ stack = <<>>
    /\ ret = NoRet
    /\ result = "running"
    /\ obs = Obs0(prog)
    /\ scanner = NoScanner
    /\ parser = NoParser
    /\ env = NoEnv
    /\ heap = NoHeap

\* one cast of x, or of a variable that does not exist, is evaluated
EvaluateCast ==
    /\ result = "running"
    /\ obs.op = <<>>
    /\ \E to \in CastKinds, x \in {"x", "none"} :
          LET r == TypeCastEvaluate(ctx, TypeCast(to, x))
          IN  /\ result' = r.err
              /\ obs' = [obs EXCEPT !.op = <<[node |-> TypeCast(to, x), val |-> r.val]>>]
    /\ UNCHANGED <<prog, names, pargs, ctx, nid, stack, ret, scanner, parser, env, heap>>

SpecCast == InitCast /\ [][EvaluateCast]_vars

-----------------------------------------------------------------------------
(* Properties of TypeCast *)

\* a cast of x has been evaluated; Operand is the value cast
CastDone == obs.op # <<>> /\ obs.op[1].node.X = "x"
Operand == CtxGet(ctx, "x")

\* the string holds a decimal integer
DecimalInteger(st) == \E n \in -MaxInt..MaxInt : ToString(n) = st
\* the string holds a number
Numeric(st) == DecimalInteger(st) \/ st \in {"4.5"}

\* casting a string that holds a decimal integer to integer yields that integer
CastStringToInteger ==
    (CastDone /\ obs.op[1].node.To = "Int64" /\ Operand.k = "String"
       /\ DecimalInteger(Operand.v))
        => /\ result = Nil
           /\ obs.op[1].val.k = "Int64"
           /\ ToString(obs.op[1].val.v) = Operand.v

\* casting a string that holds no number to integer fails
CastNonNumeric ==
    (CastDone /\ obs.op[1].node.To = "Int64" /\ Operand.k = "String" /\ ~Numeric(Operand.v))
        => result # Nil

\* casting a value to the type it has returns the value
CastSameType ==
    (CastDone /\ obs.op[1].node.To = Operand.k) => result = Nil /\ obs.op[1].val = Operand

\* C26: casting a string that holds a decimal integer to integer succeeds and yields
\* that integer, casting a non-numeric string to integer fails with an error, and
\* casting a value to the type it already has returns the value unchanged
C26_TypeCast == CastStringToInteger /\ CastNonNumeric /\ CastSameType

\* the two parts of C26 that do not ask for a string to become an integer
C26_OtherParts == CastNonNumeric /\ CastSameType

-----------------------------------------------------------------------------
(* Arrays and maps on the heap *)

\* arrays and maps allocated in one run, and statements evaluated on their own
MaxObjects == 3
MaxSteps == 3

\* a []any value: the address of its backing array and its length; a map[any]any
\* value: the address of the map
SliceRef(ptr, n) == [k |-> "Slice", ptr |-> ptr, len |-> n]
MapRef(ptr) == [k |-> "Map", ptr |-> ptr]

\* the heap after one more object was allocated; its address is the new length
Alloc(h, obj) == Append(h, obj)

\* vv.Index(i) of a slice value, i counted from 0
ElemAt(h, val, i) == h[val.ptr][i + 1]
\* vv.Index(i).Set(v): the element of the backing array is overwritten
SetElem(h, val, i, v) == [h EXCEPT ![val.ptr][i + 1] = v]
\* vv.SetMapIndex(key, v)
SetKey(h, val, key, v) == [h EXCEPT ![val.ptr] = Bind(@, key, v)]

-----------------------------------------------------------------------------
(* Expressions of a lambda *)

ErrAdd == "operator + is not supported"
ErrNum == "operator is not supported"
ErrParse == "strconv.ParseInt: invalid syntax"
ErrCannotCast == "value cannot cast"
ErrManyArgs == "too many argument defined"
ErrFewArgs == "not enought argument defined"

\* the nodes BasicLit (an integer literal), Ident and Binary with the operator + or *
Lit(n) == [n |-> "lit", val |-> IntVal(n)]
Id(name) == [n |-> "id", name |-> name]
Bin(op, l, r) == [n |-> "bin", Op |-> op, L |-> l, R |-> r]

\* convertToString; a float is held in tenths; no value explored is a []byte
convertToString(val) ==
    IF val.k = "Int64" THEN [v |-> FormatInt(val.v), err |-> Nil]
    ELSE IF val.k = "Float64" THEN [v |-> FormatFloat(val.v), err |-> Nil]
    ELSE IF val.k = "Bool" THEN [v |-> FormatBool(val.v), err |-> Nil]
    ELSE IF val.k = "String" THEN [v |-> val.v, err |-> Nil]
    ELSE [v |-> "", err |-> ErrCannotCast]

\* convertToFloat, in tenths
convertToFloat(val) ==
    IF val.k = "Int64" THEN [v |-> 10 * val.v, err |-> Nil]
    ELSE IF val.k = "Float64" THEN [v |-> val.v, err |-> Nil]
    ELSE IF val.k = "String"
    THEN IF ParseFloatString(val.v).ok THEN [v |-> ParseFloatString(val.v).v, err |-> Nil]
         ELSE [v |-> 0, err |-> ErrParse]
    ELSE [v |-> 0, err |-> ErrCannotCast]

\* convertToInt
convertToInt(val) ==
    IF val.k = "Int64" THEN [v |-> val.v, err |-> Nil]
    ELSE IF val.k = "Float64" THEN [v |-> 0, err |-> ErrCannotCast]
    ELSE IF val.k = "String"
    THEN IF ParseIntString(val.v).ok THEN [v |-> ParseIntString(val.v).v, err |-> Nil]
         ELSE [v |-> 0, err |-> ErrParse]
    ELSE [v |-> 0, err |-> ErrCannotCast]

\* addOperator with the right operand put before the left one in a concatenation
addOperatorSwapped(vl, vr) ==
    IF vl.k = "String" \/ vr.k = "String"
    THEN IF convertToString(vl).err # Nil THEN [val |-> NilVal, err |-> convertToString(vl).err]
         ELSE IF convertToString(vr).err # Nil
         THEN [val |-> NilVal, err |-> convertToString(vr).err]
         ELSE [val |-> StrVal(convertToString(vr).v \o convertToString(vl).v), err |-> Nil]
    ELSE [val |-> NilVal, err |-> ErrAdd]

\* addOperator on operands of which none is an array: the cases after the array cases
addOperator(vl, vr) ==
    IF vl.k = "String" \/ vr.k = "String"
    THEN IF convertToString(vl).err # Nil THEN [val |-> NilVal, err |-> convertToString(vl).err]
         ELSE IF convertToString(vr).err # Nil
         THEN [val |-> NilVal, err |-> convertToString(vr).err]
         ELSE [val |-> StrVal(convertToString(vl).v \o convertToString(vr).v), err |-> Nil]
    ELSE IF vl.k = "Float64" \/ vr.k = "Float64"
    THEN IF convertToFloat(vl).err # Nil THEN [val |-> NilVal, err |-> convertToFloat(vl).err]
         ELSE IF convertToFloat(vr).err # Nil
         THEN [val |-> NilVal, err |-> convertToFloat(vr).err]
         ELSE [val |-> Tenths(convertToFloat(vl).v + convertToFloat(vr).v), err |-> Nil]
    ELSE IF vl.k = "Int64" /\ vr.k = "Int64" THEN [val |-> IntVal(vl.v + vr.v), err |-> Nil]
    ELSE [val |-> NilVal, err |-> ErrAdd]

\* runtime.growslice for a []any that has oldCap elements of room and needs needed:
\* twice the room, or what is needed when that is more (the sizes explored are size
\* classes of the allocator, so nothing is rounded up)
GrowCap(oldCap, needed) == IF needed > 2 * oldCap THEN needed ELSE 2 * oldCap

\* the elements of a slice value; the object at ptr is its backing array, with room
\* for Len(h[ptr]) elements
Elems(h, vv) == SubSeq(h[vv.ptr], 1, vv.len)

\* a backing array with room for n elements that holds xs
Backing(xs, n) == [j \in 1..n |-> IF j <= Len(xs) THEN xs[j] ELSE NilVal]

\* append that always copies the elements to a new backing array
appendCopies(h, vv, xs) ==
    LET h1 == Alloc(h, Elems(h, vv) \o xs)
    IN  [val |-> SliceRef(Len(h1), vv.len + Len(xs)), heap |-> h1]

\* append(vv, xs...): when the backing array has room the elements are stored behind
\* the last element of vv, in place; otherwise they go to a new backing array
appendSlice(h, vv, xs) ==
    IF vv.len + Len(xs) <= Len(h[vv.ptr])
    THEN [val |-> SliceRef(vv.ptr, vv.len + Len(xs)),
          heap |-> [h EXCEPT ![vv.ptr] =
                      [j \in 1..Len(@) |-> IF j > vv.len /\ j <= vv.len + Len(xs)
                                           THEN xs[j - vv.len] ELSE @[j]]]]
    ELSE LET h1 == Alloc(h, Backing(Elems(h, vv) \o xs,
                                    GrowCap(Len(h[vv.ptr]), vv.len + Len(xs))))
         IN  [val |-> SliceRef(Len(h1), vv.len + Len(xs)), heap |-> h1]

\* addOperator on any two values: value, error and heap. The array cases come first:
\* array + array, array + scalar, and scalar + array, which appends to []any{vl}
addOperatorArray(h, vl, vr) ==
    IF vl.k = "Slice"
    THEN With(appendSlice(h, vl, IF vr.k = "Slice" THEN Elems(h, vr) ELSE <<vr>>), LAMBDA r :
              [val |-> r.val, err |-> Nil, heap |-> r.heap])
    ELSE IF vr.k = "Slice"
    THEN With(Alloc(h, <<vl>>), LAMBDA h1 :
         With(appendSlice(h1, SliceRef(Len(h1), 1), Elems(h, vr)), LAMBDA r :
              [val |-> r.val, err |-> Nil, heap |-> r.heap]))
    ELSE [val |-> addOperator(vl, vr).val, err |-> addOperator(vl, vr).err, heap |-> h]

\* the quotient and the remainder of two int64, the quotient cut towards zero
GoQuo(a, b) == IF (a < 0) = (b < 0) THEN Abs(a) \div Abs(b) ELSE -(Abs(a) \div Abs(b))
GoRem(a, b) == a - b * GoQuo(a, b)

\* what an operator gives: a value, an error, or a panic of the Go runtime
Num(val) == [val |-> val, err |-> Nil, panic |-> FALSE]
NumErr(err) == [val |-> NilVal, err |-> err, panic |-> FALSE]
NumPanic == [val |-> NilVal, err |-> Nil, panic |-> TRUE]

\* the operators numOperator is called with that are modelled
NumOps == {"-", "*", "/", "%"}

\* a float64 that is a product or a quotient of floats in tenths, as a fraction; a
\* quotient by zero is an infinity or a NaN
Fraction(num, den) == [k |-> "Float64", num |-> num, den |-> den]

\* numOperator: the float branch is taken when an operand is a float and the operator
\* comes before %, the integer branch when no operand is a float and one is an
\* integer. The operands go through convertToFloat or convertToInt. ia / ib and
\* ia % ib with ib = 0 are a run-time panic of Go, integer divide by zero
numOperator(op, vl, vr) ==
    IF vl.k = "Float64" \/ vr.k = "Float64"
    THEN IF op = "%" THEN NumErr(ErrNum)
         ELSE IF convertToFloat(vl).err # Nil THEN NumErr(convertToFloat(vl).err)
         ELSE IF convertToFloat(vr).err # Nil THEN NumErr(convertToFloat(vr).err)
         ELSE IF op = "-" THEN Num(Tenths(convertToFloat(vl).v - convertToFloat(vr).v))
         ELSE IF op = "*"
         THEN Num(Fraction(convertToFloat(vl).v * convertToFloat(vr).v, 100))
         ELSE Num(Fraction(convertToFloat(vl).v, convertToFloat(vr).v))
    ELSE IF vl.k = "Int64" \/ vr.k = "Int64"
    THEN IF convertToInt(vl).err # Nil THEN NumErr(convertToInt(vl).err)
         ELSE IF convertToInt(vr).err # Nil THEN NumErr(convertToInt(vr).err)
         ELSE IF op = "-" THEN Num(IntVal(convertToInt(vl).v - convertToInt(vr).v))
         ELSE IF op = "*" THEN Num(IntVal(convertToInt(vl).v * convertToInt(vr).v))
         ELSE IF convertToInt(vr).v = 0 THEN NumPanic
         ELSE IF op = "/" THEN Num(IntVal(GoQuo(convertToInt(vl).v, convertToInt(vr).v)))
         ELSE Num(IntVal(GoRem(convertToInt(vl).v, convertToInt(vr).v)))
    ELSE NumErr(ErrNum)

\* Evaluate of the nodes above: value and error
RECURSIVE ExprEvaluate(_, _)
ExprEvaluate(c, x) ==
    IF x.n = "lit" THEN [val |-> x.val, err |-> Nil]
    ELSE IF x.n = "id" THEN [val |-> CtxGet(c, x.name), err |-> Nil]
    ELSE With(ExprEvaluate(c, x.L), LAMBDA l :
         IF l.err # Nil THEN [val |-> NilVal, err |-> l.err]
         ELSE With(ExprEvaluate(c, x.R), LAMBDA r :
              IF r.err # Nil THEN [val |-> NilVal, err |-> r.err]
              ELSE IF x.Op = "+" THEN addOperator(l.val, r.val)
              ELSE [val |-> numOperator(x.Op, l.val, r.val).val,
                    err |-> numOperator(x.Op, l.val, r.val).err]))

\* a lambda  (Args) => X
Lambda(params, x) == [Args |-> params, X |-> x]

\* the loop of internalExecute that binds argument i to parameter i on the new scope
RECURSIVE BindValues(_, _, _, _, _)
BindValues(c, d, params, args, i) ==
    IF i > Len(params) THEN c
    ELSE BindValues(ScopeSet(c, d, params[i], args[i]), d, params, args, i + 1)

\* Function.internalExecute of a lambda on the argument values args: value, error and
\* the context once the deferred ExitBlock(-1) has run
internalExecute(c, id, fn, args) ==
    IF Len(args) > Len(fn.Args) THEN [val |-> NilVal, err |-> ErrManyArgs, ctx |-> c]
    ELSE IF Len(args) < Len(fn.Args) THEN [val |-> NilVal, err |-> ErrFewArgs, ctx |-> c]
    ELSE With(EnterBlock(c, id, FALSE, ""), LAMBDA c1 :
         With(BindValues(c1, Len(c1.scope), fn.Args, args, 1), LAMBDA c2 :
         With(ExprEvaluate(c2, fn.X), LAMBDA r :
              [val |-> r.val, err |-> r.err, ctx |-> ExitBlock(c2, -1)])))

-----------------------------------------------------------------------------
(* Transformation and Index *)

ErrTransform == "transform can only apply on array or map variable"
ErrIndexRange == "index out of range"
ErrIndexKind == "index value is not integer"
ErrNoKey == "map index is not exist"
ErrIndexType == "index on unsupport type"
ErrNilAssign == "assign nil value to variable"

\* an iTransform: Source reads the value it was built over (a slice or map value as
\* it was then, or another iTransform), Value applies the function
View(kind, source, fn) == [k |-> kind, Source |-> source, Fn |-> fn]

\* what a read or a write through an expression gives: value, error, panic, and the
\* context and the heap it leaves
Outcome(val, err, c, h) == [val |-> val, err |-> err, panic |-> FALSE, ctx |-> c, heap |-> h]
Crash(c, h) == [val |-> NilVal, err |-> Nil, panic |-> TRUE, ctx |-> c, heap |-> h]

\* iTransform.Transform: Source, then Value. The Source of a slice calls vv.Index, which
\* panics on an index outside the slice
RECURSIVE Transform(_, _, _, _, _)
Transform(c, h, id, it, i) ==
    With(IF it.Source.k = "Slice"
         THEN IF i.k # "Int64" \/ i.v < 0 \/ i.v >= it.Source.len THEN Crash(c, h)
              ELSE Outcome(ElemAt(h, it.Source, i.v), Nil, c, h)
         ELSE IF it.Source.k = "Map"
         THEN IF i.v \notin DOMAIN h[it.Source.ptr] THEN Outcome(NilVal, ErrNoKey, c, h)
              ELSE Outcome(h[it.Source.ptr][i.v], Nil, c, h)
         ELSE Transform(c, h, id, it.Source, i),
         LAMBDA src :
            IF src.panic \/ src.err # Nil THEN src
            ELSE With(internalExecute(src.ctx, id, it.Fn, <<i, src.val>>), LAMBDA r :
                 Outcome(r.val, r.err, r.ctx, h)))

\* the node X[Index], the index an integer literal
Index(x, i) == [X |-> x, Index |-> i]

\* Index.evaluateInternal; setVal is <<>> for a read and <<v>> for ix.Set(ctx, v, ...)
evaluateInternal(c, h, id, ix, setVal) ==
    LET i == IntVal(ix.Index)
        v == CtxGet(c, ix.X)
    IN  IF v.k = "Slice"
        THEN IF i.v < 0 \/ i.v >= v.len THEN Outcome(NilVal, ErrIndexRange, c, h)
             ELSE IF setVal # <<>> THEN Outcome(NilVal, Nil, c, SetElem(h, v, i.v, setVal[1]))
             ELSE Outcome(ElemAt(h, v, i.v), Nil, c, h)
        ELSE IF v.k = "Map"
        THEN IF setVal # <<>> THEN Outcome(NilVal, Nil, c, SetKey(h, v, i.v, setVal[1]))
             ELSE IF i.v \in DOMAIN h[v.ptr] THEN Outcome(h[v.ptr][i.v], Nil, c, h)
             ELSE Outcome(NilVal, ErrNoKey, c, h)
        ELSE IF v.k \in {"TransformSlice", "TransformMap"}
        THEN IF setVal # <<>> THEN Crash(c, h) ELSE Transform(c, h, id, v, i)
        ELSE Outcome(NilVal, ErrIndexType, c, h)

\* the node  Ident => Fn  assigned to the variable to
Transformation(ident, fn, to) == [Ident |-> ident, Fn |-> fn, to |-> to]

\* the self update of a slice: element i is replaced by the function's value; when the
\* function fails the loop ends and Evaluate returns nil, 0, nil; a nil value makes
\* reflect.Value.Set panic
RECURSIVE UpdateSlice(_, _, _, _, _, _)
UpdateSlice(c, h, id, t, vv, i) ==
    IF i >= vv.len THEN Outcome(NilVal, Nil, c, h)
    ELSE With(internalExecute(c, id, t.Fn, <<IntVal(i), ElemAt(h, vv, i)>>), LAMBDA r :
         IF r.err # Nil THEN Outcome(NilVal, Nil, r.ctx, h)
         ELSE IF r.val.k = "Invalid" THEN Crash(r.ctx, h)
         ELSE UpdateSlice(r.ctx, SetElem(h, vv, i, r.val), id, t, vv, i + 1))

\* the self update of a map, its keys visited in the order keys; a nil value makes
\* SetMapIndex delete the key
RECURSIVE UpdateMap(_, _, _, _, _, _, _)
UpdateMap(c, h, id, t, vv, keys, j) ==
    IF j > Len(keys) THEN Outcome(NilVal, Nil, c, h)
    ELSE With(internalExecute(c, id, t.Fn, <<IntVal(keys[j]), h[vv.ptr][keys[j]]>>), LAMBDA r :
         IF r.err # Nil THEN Outcome(NilVal, Nil, r.ctx, h)
         ELSE UpdateMap(r.ctx,
                        IF r.val.k = "Invalid"
                        THEN [h EXCEPT ![vv.ptr] = [key \in DOMAIN @ \ {keys[j]} |-> @[key]]]
                        ELSE SetKey(h, vv, keys[j], r.val),
                        id, t, vv, keys, j + 1))

\* xScope.SetVariable without the call of iv.bubble
SetVariableDropsBubble(c, h, d, name, val, bubble) ==
    Outcome(NilVal, Nil, ScopeSet(c, d, name, val), h)

\* xScope.SetVariable on the scope at position d of the chain, bubble <<>> for nil and
\* <<ix>> for the closure that calls ix.Set(ctx, v, k, nil). A variable that exists
\* takes the value and its own bubble is called, the error it returns dropped; a
\* variable that does not exist is created with the bubble passed. The scopes of this
\* chain have hasChild = false, the value an xScope is made with and keeps
RECURSIVE xScopeSetVariable(_, _, _, _, _, _)
xScopeSetVariable(c, h, d, name, val, bubble) ==
    IF name \in DOMAIN c.scope[d].vars
    THEN LET c1 == [c EXCEPT !.scope[d].vars = Bind(@, name, val)]
         IN  IF name \in DOMAIN c.scope[d].bubble
             THEN With(evaluateInternal(c1, h, 0, c.scope[d].bubble[name], <<val>>),
                       LAMBDA r : [Outcome(NilVal, Nil, c1, r.heap) EXCEPT !.panic = r.panic])
             ELSE Outcome(NilVal, Nil, c1, h)
    ELSE IF d = 1
    THEN Outcome(NilVal, Nil,
                 [c EXCEPT !.scope[d].vars = Bind(@, name, val),
                           !.scope[d].bubble = IF bubble = <<>> THEN @
                                               ELSE Bind(@, name, bubble[1])],
                 h)
    ELSE xScopeSetVariable(c, h, d - 1, name, val, bubble)

\* Ident.Set: a nil value is refused
IdentSet(c, h, name, val, bubble) ==
    IF val.k = "Invalid" THEN Outcome(NilVal, ErrNilAssign, c, h)
    ELSE xScopeSetVariable(c, h, Len(c.scope), name, val, bubble)

\* Transformation.Evaluate; keys is the order vv.MapKeys() yields for a map
TransformationEvaluate(c, h, id, t, keys) ==
    LET tv == CtxGet(c, t.Ident)
    IN  IF t.to = t.Ident
        THEN IF tv.k = "Slice" THEN UpdateSlice(c, h, id, t, tv, 0)
             ELSE IF tv.k = "Map" THEN UpdateMap(c, h, id, t, tv, keys, 1)
             ELSE Outcome(NilVal, ErrTransform, c, h)
        ELSE IF tv.k \in {"Slice", "TransformSlice"}
        THEN Outcome(NilVal, Nil, CtxSet(c, t.to, View("TransformSlice", tv, t.Fn)), h)
        ELSE IF tv.k \in {"Map", "TransformMap"}
        THEN Outcome(NilVal, Nil, CtxSet(c, t.to, View("TransformMap", tv, t.Fn)), h)
        ELSE Outcome(NilVal, ErrTransform, c, h)

-----------------------------------------------------------------------------
(* Transformations evaluated on a context that binds a *)

\* the elements of the containers explored
Elements == {IntVal(1), IntVal(2), StrVal("x")}

\* the functions explored:  (i, v) => v * 2  and  (i, v) => v + i
Fns == {Lambda(<<"i", "v">>, Bin("*", Id("v"), Lit(2))),
        Lambda(<<"i", "v">>, Bin("+", Id("v"), Id("i")))}

\* the arrays explored
Arrays == UNION {[1..n -> Elements] : n \in 1..2}

\* the map with the keys 0..Len(a)-1 and the elements of the array a
MapFrom(a) == [key \in 0..(Len(a) - 1) |-> a[key + 1]]

\* a context that binds a to an array, or to a map, allocated on the heap
InitView ==
    /\ prog = NoProgram
    /\ names = <<>>
    /\ pargs = <<>>
    /\ \E a \in Arrays :
          \/ heap = <<a>> /\ ctx = CtxSet(renewContext, "a", SliceRef(1, Len(a)))
          \/ heap = <<MapFrom(a)>> /\ ctx = CtxSet(renewContext, "a", MapRef(1))
    /\ nid = 1
    /\ stack = <<>>
    /\ ret = NoRet
    /\ result = "running"
    /\ obs = Obs0(prog)
    /\ scanner = NoScanner
    /\ parser = NoParser
    /\ env = NoEnv

\* the statement evaluated on its own ended as r says
StatementEnds(r) ==
    /\ ctx' = r.ctx
    /\ heap' = r.heap
    /\ result' = IF r.panic THEN "panic" ELSE IF r.err # Nil THEN r.err ELSE "running"

\* the keys vv.MapKeys() may yield for the value of the variable, in any order
KeyOrders(name) ==
    IF CtxGet(ctx, name).k = "Map" THEN Orders(DOMAIN heap[CtxGet(ctx, name).ptr]) ELSE {<<>>}

\* AssignStatement.Evaluate of  to = ident => fn
ViewTransformation ==
    /\ result = "running" /\ obs.steps < MaxSteps
    /\ \E pair \in {<<"c", "a">>, <<"e", "c">>, <<"a", "a">>, <<"c", "c">>}, fn \in Fns :
          \E keys \in KeyOrders(pair[2]) :
             LET t == Transformation(pair[2], fn, pair[1])
                 r == TransformationEvaluate(ctx, heap, nid, t, keys)
             IN  /\ StatementEnds(r)
                 /\ obs' = [obs EXCEPT
                              !.steps = @ + 1,
                              !.op = <<[kind |-> "transform", node |-> t, before |-> ctx,
                                        heap |-> heap]>>,
                              !.views = IF t.to # t.Ident /\ r.err = Nil
                                        THEN Bind(@, t.to, [of |-> t.Ident, Fn |-> fn])
                                        ELSE @]
    /\ UNCHANGED <<prog, names, pargs, nid, stack, ret, scanner, parser, env>>

\* AssignStatement.Evaluate of  a[i] = 5 : Index.Set writes the element in place
ViewIndexSet ==
    /\ result = "running" /\ obs.steps < MaxSteps
    /\ \E i \in 0..1 :
          LET r == evaluateInternal(ctx, heap, nid, Index("a", i), <<IntVal(5)>>)
          IN  /\ StatementEnds(r)
              /\ obs' = [obs EXCEPT !.steps = @ + 1,
                                    !.op = <<[kind |-> "set", node |-> Index("a", i)]>>]
    /\ UNCHANGED <<prog, names, pargs, nid, stack, ret, scanner, parser, env>>

\* AssignStatement.Evaluate of  a = [7, 8] : the array literal is a new array
ViewRebind ==
    /\ result = "running" /\ obs.steps < MaxSteps
    /\ Len(heap) < MaxObjects
    /\ LET h == Alloc(heap, <<IntVal(7), IntVal(8)>>)
           r == IdentSet(ctx, h, "a", SliceRef(Len(h), 2), <<>>)
       IN  /\ StatementEnds(r)
           /\ obs' = [obs EXCEPT !.steps = @ + 1, !.op = <<[kind |-> "assign"]>>]
    /\ UNCHANGED <<prog, names, pargs, nid, stack, ret, scanner, parser, env>>

\* Index.Evaluate of  x[i]
ViewIndex ==
    /\ result = "running" /\ obs.steps < MaxSteps
    /\ \E x \in {"a", "c", "e"}, i \in 0..2 :
          LET r == evaluateInternal(ctx, heap, nid, Index(x, i), <<>>)
          IN  /\ StatementEnds(r)
              /\ obs' = [obs EXCEPT !.steps = @ + 1,
                                    !.op = <<[kind |-> "index", node |-> Index(x, i),
                                              val |-> r.val, err |-> r.err,
                                              before |-> ctx, heap |-> heap]>>]
    /\ UNCHANGED <<prog, names, pargs, nid, stack, ret, scanner, parser, env>>

NextView == ViewTransformation \/ ViewIndexSet \/ ViewRebind \/ ViewIndex

SpecView == InitView /\ [][NextView]_vars

-----------------------------------------------------------------------------
(* Properties of transformations *)

\* the function applied to an index and a value, on a context of its own
Applied(fn, i, v) == internalExecute(renewContext, 0, fn, <<IntVal(i), v>>)

\* what the variable x holds at i in the context c and the heap h, as C27 reads a
\* view: the function of the view applied to what the transformed variable holds at i
RECURSIVE HeldAt(_, _, _, _)
HeldAt(x, i, c, h) ==
    IF x \in DOMAIN obs.views
    THEN LET inner == HeldAt(obs.views[x].of, i, c, h)
         IN  IF ~inner.ok THEN inner
             ELSE [ok |-> Applied(obs.views[x].Fn, i, inner.val).err = Nil,
                   val |-> Applied(obs.views[x].Fn, i, inner.val).val]
    ELSE LET v == CtxGet(c, x)
         IN  IF v.k = "Slice" /\ 0 <= i /\ i < v.len THEN [ok |-> TRUE, val |-> ElemAt(h, v, i)]
             ELSE IF v.k = "Map" /\ i \in DOMAIN h[v.ptr] THEN [ok |-> TRUE, val |-> h[v.ptr][i]]
             ELSE [ok |-> FALSE, val |-> NilVal]

\* the latest statement read a view at an index
IndexedView == obs.op # <<>> /\ obs.op[1].kind = "index" /\ obs.op[1].node.X \in DOMAIN obs.views

\* the latest statement assigned a transformation of a to another variable
ViewCreated ==
    /\ obs.op # <<>> /\ obs.op[1].kind = "transform"
    /\ obs.op[1].node.Ident = "a" /\ obs.op[1].node.to # "a"

\* the array or map the value points to
Deref(h, v) == IF v.k \in {"Slice", "Map"} THEN h[v.ptr] ELSE <<>>

\* the assignment of a transformation of a to another variable has not changed a
SourceUnchanged ==
    ViewCreated =>
        /\ CtxGet(ctx, "a") = CtxGet(obs.op[1].before, "a")
        /\ Deref(heap, CtxGet(ctx, "a")) = Deref(obs.op[1].heap, CtxGet(ctx, "a"))

\* the read of the view gave the function applied to what the source holds
ViewShowsSource ==
    LET o == obs.op[1]
        held == HeldAt(o.node.X, o.node.Index, o.before, o.heap)
    IN  held.ok => result = "running" /\ o.val = held.val

\* C27: assigning a transformation of array or map a to a different variable produces
\* a lazy view and never changes a: indexing the view at i yields the transform applied
\* to the value a holds at i at the time of indexing (later changes to a show through
\* the view), and a view built over another view yields the outer transform applied to
\* the inner view's element
C27_LazyView == SourceUnchanged /\ (IndexedView => ViewShowsSource)

\* every variable a view was built over, directly or through views, still holds the
\* value it held when that view was built
RECURSIVE SourcesKept(_, _)
SourcesKept(x, c) ==
    x \in DOMAIN obs.views =>
        /\ CtxGet(c, x).k \in {"TransformSlice", "TransformMap"}
        /\ CtxGet(c, x).Source = CtxGet(c, obs.views[x].of)
        /\ SourcesKept(obs.views[x].of, c)

\* C27 for views whose sources were changed only element by element
C27_ElementChanges ==
    /\ SourceUnchanged
    /\ (IndexedView /\ SourcesKept(obs.op[1].node.X, obs.op[1].before)) => ViewShowsSource

\* the latest statement assigned a transformation of a back to a, with no error
SelfUpdated ==
    /\ obs.op # <<>> /\ obs.op[1].kind = "transform"
    /\ obs.op[1].node.Ident = "a" /\ obs.op[1].node.to = "a"
    /\ result = "running"

\* the container a pointed to before the latest statement, and the one it points to now
ContainerBefore == Deref(obs.op[1].heap, CtxGet(obs.op[1].before, "a"))
ContainerNow == Deref(heap, CtxGet(ctx, "a"))

\* the index (for an array) or key (for a map) of position p of the container
IndexOf(p) == IF CtxGet(obs.op[1].before, "a").k = "Slice" THEN p - 1 ELSE p

\* the function of the latest transformation can be applied to every element
FunctionSucceeds ==
    \A p \in DOMAIN ContainerBefore :
        Applied(obs.op[1].node.Fn, IndexOf(p), ContainerBefore[p]).err = Nil

\* every element was replaced by the function applied to its index and previous value
AllReplaced ==
    /\ CtxGet(ctx, "a") = CtxGet(obs.op[1].before, "a")
    /\ DOMAIN ContainerNow = DOMAIN ContainerBefore
    /\ \A p \in DOMAIN ContainerBefore :
          /\ Applied(obs.op[1].node.Fn, IndexOf(p), ContainerBefore[p]).err = Nil
          /\ ContainerNow[p] = Applied(obs.op[1].node.Fn, IndexOf(p), ContainerBefore[p]).val

\* C28: assigning a transformation of a back to a produces no view: after the
\* assignment every element of a has been replaced, in place, by the transform applied
\* to that element's index and previous value, and a keeps its kind and length
C28_SelfUpdate == SelfUpdated => AllReplaced

\* C28 for a function that can be applied to every element
C28_WhenFunctionSucceeds == (SelfUpdated /\ FunctionSucceeds) => AllReplaced

-----------------------------------------------------------------------------
(* Assignment to a variable made from an element *)

ErrNoVariable == "variable does not exist"

\* an AssignStatement: Ident is an Ident or an Index node, Op is "=" or "+=", Value is
\* a literal or an Index node
AssignNode(ident, op, value) == [Ident |-> ident, Op |-> op, Value |-> value]

\* the type assertions node.(*Ident) and node.(*Index)
isVar(node) == "name" \in DOMAIN node
isIndex(node) == "X" \in DOMAIN node

\* the label opOnArray of addOperator with head = 1: append(vl.([]any), vr). When the
\* backing array is full the elements are copied to a new one, otherwise vr is stored
\* behind the last element of the old one
opOnArray(h, vl, vr, full) ==
    IF full
    THEN LET h1 == Alloc(h, Append(SubSeq(h[vl.ptr], 1, vl.len), vr))
         IN  [val |-> SliceRef(Len(h1), vl.len + 1), heap |-> h1]
    ELSE [val |-> SliceRef(vl.ptr, vl.len + 1),
          heap |-> [h EXCEPT ![vl.ptr] = IF Len(@) > vl.len THEN [@ EXCEPT ![vl.len + 1] = vr]
                                         ELSE Append(@, vr)]]

\* Evaluate of the value or of the assigned node
NodeValue(c, h, id, node) ==
    IF isIndex(node) THEN evaluateInternal(c, h, id, node, <<>>)
    ELSE With(ExprEvaluate(c, node), LAMBDA r : Outcome(r.val, r.err, c, h))

\* Set of the assigned node: Ident.Set or Index.Set, which drops the bubble
NodeSet(c, h, id, node, val, bubble) ==
    IF isVar(node) THEN IdentSet(c, h, node.name, val, bubble)
    ELSE evaluateInternal(c, h, id, node, <<val>>)

\* AssignStatement.Evaluate for the operators = and +=, the right operand of += not an
\* array; full tells whether append finds the backing array full
AssignStatementEvaluate(c, h, id, as, full) ==
    With(NodeValue(c, h, id, as.Value), LAMBDA i :
    IF i.panic \/ i.err # Nil THEN i
    ELSE IF as.Op = "="
    THEN NodeSet(i.ctx, h, id, as.Ident, i.val,
                 IF isVar(as.Ident) /\ isIndex(as.Value) THEN <<as.Value>> ELSE <<>>)
    ELSE With(NodeValue(i.ctx, h, id, as.Ident), LAMBDA v :
         IF v.panic \/ v.err # Nil THEN v
         ELSE IF v.val.k = "Invalid" THEN Outcome(NilVal, ErrNoVariable, v.ctx, h)
         ELSE IF v.val.k = "Slice"
         THEN With(opOnArray(h, v.val, i.val, full), LAMBDA sum :
              [NodeSet(v.ctx, sum.heap, id, as.Ident, sum.val, <<>>) EXCEPT !.err = Nil])
         ELSE With(addOperator(v.val, i.val), LAMBDA sum :
              IF sum.err # Nil THEN Outcome(NilVal, sum.err, v.ctx, h)
              ELSE [NodeSet(v.ctx, h, id, as.Ident, sum.val, <<>>) EXCEPT !.err = Nil])))

-----------------------------------------------------------------------------
(* Assignments evaluated on a context that binds a *)

\* the literals 5 and "x"
Literals == {[n |-> "lit", val |-> IntVal(5)], [n |-> "lit", val |-> StrVal("x")]}

\* a is an array or a map of integers, strings and the array [1]; the array [1] is the
\* first object of the heap
InitRef ==
    /\ prog = NoProgram
    /\ names = <<>>
    /\ pargs = <<>>
    /\ \E a \in UNION {[1..n -> Elements \cup {SliceRef(1, 1)}] : n \in 1..2} :
          \/ heap = <<(<<IntVal(1)>>), a>>
                /\ ctx = CtxSet(renewContext, "a", SliceRef(2, Len(a)))
          \/ heap = <<(<<IntVal(1)>>), MapFrom(a)>>
                /\ ctx = CtxSet(renewContext, "a", MapRef(2))
    /\ nid = 1
    /\ stack = <<>>
    /\ ret = NoRet
    /\ result = "running"
    /\ obs = Obs0(prog)
    /\ scanner = NoScanner
    /\ parser = NoParser
    /\ env = NoEnv

\* the statement as evaluated on its own
RefStatement(as, full) ==
    LET r == AssignStatementEvaluate(ctx, heap, nid, as, full)
    IN  /\ Len(r.heap) <= MaxObjects
        /\ StatementEnds(r)
        /\ obs' = [obs EXCEPT
                     !.steps = @ + 1,
                     !.op = <<[kind |-> "assign", node |-> as, before |-> ctx]>>,
                     !.made = IF /\ as.Op = "=" /\ isVar(as.Ident) /\ isIndex(as.Value)
                                 /\ CtxGet(ctx, as.Ident.name).k = "Invalid"
                                 /\ ~r.panic /\ r.err = Nil
                              THEN Bind(@, as.Ident.name, as.Value)
                              ELSE @]
        /\ UNCHANGED <<prog, names, pargs, nid, stack, ret, scanner, parser, env>>

\* b = a[i]
RefFromIndex ==
    /\ result = "running" /\ obs.steps < MaxSteps
    /\ \E i \in 0..2 : RefStatement(AssignNode(Id("b"), "=", Index("a", i)), FALSE)

\* b = 5  and  b = "x"
RefAssign ==
    /\ result = "running" /\ obs.steps < MaxSteps
    /\ \E lit \in Literals : RefStatement(AssignNode(Id("b"), "=", lit), FALSE)

\* b += 5  and  b += "x"
RefAddAssign ==
    /\ result = "running" /\ obs.steps < MaxSteps
    /\ \E lit \in Literals, full \in BOOLEAN :
          RefStatement(AssignNode(Id("b"), "+=", lit), full)

\* a[j] = 5  and  a[j] += 5
RefElement ==
    /\ result = "running" /\ obs.steps < MaxSteps
    /\ \E j \in 0..1, op \in {"=", "+="} :
          RefStatement(AssignNode(Index("a", j), op, [n |-> "lit", val |-> IntVal(5)]), TRUE)

\* a = [7, 8] : the array literal is a new array
RefRebind ==
    /\ result = "running" /\ obs.steps < MaxSteps
    /\ Len(heap) < MaxObjects
    /\ LET h == Alloc(heap, <<IntVal(7), IntVal(8)>>)
           r == IdentSet(ctx, h, "a", SliceRef(Len(h), 2), <<>>)
       IN  /\ StatementEnds(r)
           /\ obs' = [obs EXCEPT !.steps = @ + 1, !.op = <<[kind |-> "rebind"]>>]
    /\ UNCHANGED <<prog, names, pargs, nid, stack, ret, scanner, parser, env>>

NextRef == RefFromIndex \/ RefAssign \/ RefAddAssign \/ RefElement \/ RefRebind

SpecRef == InitRef /\ [][NextRef]_vars

-----------------------------------------------------------------------------
(* Properties of assignments through a reference *)

\* the last statement was an assignment to b that succeeded
AssignedB ==
    /\ obs.op # <<>> /\ obs.op[1].kind = "assign"
    /\ obs.op[1].node.Ident = Id("b")
    /\ result = "running"

\* b existed before the last statement, made by  b = a[i]
MadeFromElement == "b" \in DOMAIN obs.made /\ CtxGet(obs.op[1].before, "b").k # "Invalid"

\* the node a[i] that b was made from
MadeFrom == obs.made["b"]

\* what a[i] holds now
ElementNow == evaluateInternal(ctx, heap, 0, MadeFrom, <<>>)

-----------------------------------------------------------------------------
(* The for loop over an array *)

\* for loops evaluated one after the other in one run
MaxLoops == 2

ErrValueKind == "for loop value type cannot be modfied"
ErrIndexKindLoop == "for loop index type cannot be modfied"
ErrOperand == "for loop operand is not allowed, only map, array or string is allowed"

\* the node  for I, Value in Oprnd { Insts }
ForNode(i, value, oprnd, insts) ==
    [Label |-> "", I |-> i, Value |-> value, Oprnd |-> oprnd, Insts |-> insts]

\* Evaluate of a statement of the body: an AssignStatement or a BreakContinueStatement
StatementEvaluate(c, h, id, stmt, full) ==
    IF "Ident" \in DOMAIN stmt THEN AssignStatementEvaluate(c, h, id, stmt, full)
    ELSE IF stmt.op = "break" THEN Outcome(NilVal, Nil, DoBreak(c, stmt.label), h)
    ELSE Outcome(NilVal, Nil, DoContinue(c, stmt.label), h)

\* BlockStatement.Evaluate from statement j on: the first error is returned, and a
\* pending break or continue ends the block
RECURSIVE BlockEvaluate(_, _, _, _, _, _)
BlockEvaluate(c, h, id, stmts, j, full) ==
    IF j > Len(stmts) THEN Outcome(NilVal, Nil, c, h)
    ELSE With(StatementEvaluate(c, h, id, stmts[j], full), LAMBDA r :
         IF r.panic \/ r.err # Nil THEN r
         ELSE IF ShouldBreak(r.ctx, FALSE) THEN Outcome(NilVal, Nil, r.ctx, r.heap)
         ELSE BlockEvaluate(r.ctx, r.heap, id, stmts, j + 1, full))

\* what executeInsts returns, with the context and the heap it leaves; index and val
\* are <<>> for nil; body is the error of the body alone
Insts(needBreak, index, val, err, b) ==
    [needBreak |-> needBreak, index |-> index, val |-> val, err |-> err,
     panic |-> b.panic, ctx |-> b.ctx, heap |-> b.heap, body |-> b.err]

\* ForStatement.executeInsts
executeInsts(c, h, id, fst, ikind, vkind, full) ==
    With(BlockEvaluate(c, h, id, fst.Insts, 1, full), LAMBDA b :
    IF b.panic \/ b.err # Nil THEN Insts(FALSE, <<>>, <<>>, b.err, b)
    ELSE LET sb == ShouldBreak(b.ctx, TRUE)
             b1 == IF sb THEN b ELSE [b EXCEPT !.ctx = ResetBreakContinue(b.ctx)]
         IN  IF ikind # "Invalid"
             THEN IF CtxGet(b1.ctx, fst.I).k # ikind
                  THEN Insts(FALSE, <<>>, <<>>, ErrIndexKindLoop, b1)
                  ELSE Insts(sb, <<CtxGet(b1.ctx, fst.I)>>, <<>>, Nil, b1)
             ELSE IF vkind # "Invalid"
             THEN IF CtxGet(b1.ctx, fst.Value).k # vkind
                  THEN Insts(FALSE, <<>>, <<>>, ErrValueKind, b1)
                  ELSE Insts(sb, <<>>, <<CtxGet(b1.ctx, fst.Value)>>, Nil, b1)
             ELSE Insts(sb, <<>>, <<>>, Nil, b1))

\* a loop that never stores the value of the value variable
WriteBackDropped(h, vv, i, val) == h

\* if val != nil { iv.Set(reflect.ValueOf(val)) }
WriteBack(h, vv, i, val) == IF val # <<>> THEN SetElem(h, vv, i, val[1]) ELSE h

\* the loop of the case reflect.Slice from index i on; d is the position of the scope
\* EnterBlock returned. iters lists the iterations made: the index, the element before,
\* the value of the value variable after the body, the error of the body, the error of
\* the iteration and the element when the iteration ends
RECURSIVE ForSlice(_, _, _, _, _, _, _, _, _)
ForSlice(c, h, id, fst, vv, d, i, full, iters) ==
    IF i >= vv.len THEN [err |-> Nil, panic |-> FALSE, ctx |-> c, heap |-> h, iters |-> iters]
    ELSE With(xScopeSetVariable(c, h, d, fst.I, IntVal(i), <<>>), LAMBDA s1 :
         With(ElemAt(s1.heap, vv, i), LAMBDA iv :
         With(xScopeSetVariable(s1.ctx, s1.heap, d, fst.Value, iv, <<>>), LAMBDA s2 :
         With(executeInsts(s2.ctx, s2.heap, id, fst, "Invalid", iv.k, full), LAMBDA r :
         With([k |-> i, old |-> iv, kind |-> iv.k, v |-> CtxGet(r.ctx, fst.Value),
               body |-> r.body, err |-> r.err,
               elem |-> ElemAt(WriteBack(r.heap, vv, i, r.val), vv, i)], LAMBDA it :
              IF r.panic \/ r.err # Nil \/ r.needBreak
              THEN [err |-> r.err, panic |-> r.panic, ctx |-> r.ctx,
                    heap |-> WriteBack(r.heap, vv, i, r.val), iters |-> Append(iters, it)]
              ELSE ForSlice(r.ctx, WriteBack(r.heap, vv, i, r.val), id, fst, vv, d, i + 1,
                            full, Append(iters, it)))))))

\* ForStatement.Evaluate when Oprnd is set and holds an array; the deferred ExitBlock
\* runs when the loop has ended
ForStatementEvaluate(c, h, id, fst, full) ==
    LET vv == CtxGet(c, fst.Oprnd)
    IN  IF vv.k = "Slice"
        THEN With(EnterBlock(c, id, TRUE, fst.Label), LAMBDA c1 :
             With(ForSlice(c1, h, id, fst, vv, Len(c1.scope), 0, full, <<>>), LAMBDA r :
                  [r EXCEPT !.ctx = ExitBlock(r.ctx, EnterIndex(c, TRUE))]))
        ELSE [err |-> ErrOperand, panic |-> FALSE, ctx |-> c, heap |-> h, iters |-> <<>>]

-----------------------------------------------------------------------------
(* Loops evaluated on a context that binds a to an array *)

\* the statements of a body: v = 5, v = "x", v += 5, v += "x", w += 5 (which fails, no
\* variable w exists) and break
BodyStatements ==
    {AssignNode(Id("v"), op, lit) : op \in {"=", "+="}, lit \in Literals}
        \cup {AssignNode(Id("w"), "+=", [n |-> "lit", val |-> IntVal(5)]), Break("")}

\* the bodies explored
Bodies == UNION {[1..n -> BodyStatements] : n \in 1..2}

InitFor == InitRef /\ CtxGet(ctx, "a").k = "Slice"

\* for i, v in a { body }
ForArray ==
    /\ result = "running" /\ obs.steps < MaxLoops
    /\ \E body \in Bodies, full \in BOOLEAN :
          LET fst == ForNode("i", "v", "a", body)
              r == ForStatementEvaluate(ctx, heap, nid, fst, full)
          IN  /\ Len(r.heap) <= MaxObjects
              /\ ctx' = r.ctx
              /\ heap' = r.heap
              /\ result' = IF r.panic THEN "panic" ELSE IF r.err # Nil THEN r.err
                           ELSE "running"
              /\ obs' = [obs EXCEPT
                           !.steps = @ + 1,
                           !.op = <<[kind |-> "for", node |-> fst, vv |-> CtxGet(ctx, "a"),
                                     iters |-> r.iters, before |-> ctx]>>]
    /\ UNCHANGED <<prog, names, pargs, nid, stack, ret, scanner, parser, env>>

SpecFor == InitFor /\ [][ForArray]_vars

-----------------------------------------------------------------------------
(* Properties of the for loop over an array *)

\* a for loop has just ended, with or without an error
LoopEnded == obs.op # <<>> /\ obs.op[1].kind = "for"

\* the iterations the loop made
Iterations == obs.op[1].iters

\* element k of the array the loop ran over, as it is now
ElementOf(k) == ElemAt(heap, obs.op[1].vv, k)

\* C30 (as stated): when the loop has ended, element k of the array equals the value v
\* held at the end of iteration k, for every iteration whose body was evaluated
\* without an error
C30_LoopWriteBack ==
    LoopEnded =>
        \A n \in 1..Len(Iterations) :
            Iterations[n].body = Nil => ElementOf(Iterations[n].k) = Iterations[n].v

\* C30 (amended): an iteration k whose body was evaluated without an error and left v
\* a value of the kind the element had stores that value in element k when it ends, and
\* the element holds it when the loop has ended (no body explored assigns an element
\* itself); an iteration that leaves v a value of another kind ends the loop with an
\* error and element k is what it was
C30_SameKindWriteBack ==
    LoopEnded =>
        \A n \in 1..Len(Iterations) :
            Iterations[n].body = Nil =>
                IF Iterations[n].v.k = Iterations[n].kind
                THEN /\ Iterations[n].elem = Iterations[n].v
                     /\ ElementOf(Iterations[n].k) = Iterations[n].v
                ELSE /\ result = ErrValueKind
                     /\ n = Len(Iterations)
                     /\ ElementOf(Iterations[n].k) = Iterations[n].old

\* a loop over two elements has ended without an error, and both elements were given
\* a new value
C30_Witness ==
    /\ LoopEnded /\ result = "running"
    /\ Len(Iterations) = 2
    /\ \A n \in 1..2 : /\ Iterations[n].v # Iterations[n].old
                       /\ ElementOf(Iterations[n].k) = Iterations[n].v

-----------------------------------------------------------------------------
(* A range loop whose body assigns the index variable *)

\* the endpoints of these loops are 0..MaxBound, and a run is followed until the body
\* has begun MaxVisits + 1 times
MaxBound == 3
MaxVisits == 4

\* i = n, i += 1 and x = 1
IndexStatements ==
    {Assign("i", n) : n \in 0..MaxBound} \cup {AddAssign("i", 1), Assign("x", 1)}

\* bodies of one or two statements; i = "text" comes last, nothing is added to a string
IndexBodies ==
    {<<st>> : st \in IndexStatements \cup {AssignString("i", "x")}}
        \cup {<<st, nd>> : st \in IndexStatements,
                           nd \in IndexStatements \cup {AssignString("i", "x")}}

\* for i in [a..b] { body }
IndexLoops ==
    {For("", "i", a, TRUE, b, TRUE, body) : a \in 0..MaxBound, b \in 0..MaxBound,
                                            body \in IndexBodies}

InitIndex ==
    /\ \E l \in IndexLoops : prog = [NewCook EXCEPT !.Insts = <<l>>]
    /\ names = <<>>
    /\ pargs = <<>>
    /\ ctx = renewContext
    /\ nid = 1
    /\ stack = <<BlockFrame(prog.Insts)>>
    /\ ret = NoRet
    /\ result = "running"
    /\ obs = Obs0(prog)
    /\ scanner = NoScanner
    /\ parser = NoParser
    /\ env = NoEnv
    /\ heap = NoHeap

EvaluateIndex ==
    /\ Len(obs.visits) <= MaxVisits
    /\ \/ AssignStatement
       \/ ForStatement
       \/ ForIterate
       \/ ForExecuteInsts
       \/ BlockResume
       \/ BlockEnd

SpecIndex == InitIndex /\ [][EvaluateIndex]_vars

\* the interval of the loop: start, end and step
LoopRange == IntervalEvaluate(prog.Insts[1].Range)
\* the index one step after v, and whether v has not passed the end bound
Advanced(v) == IF LoopRange[1] > LoopRange[2] THEN v - LoopRange[3] ELSE v + LoopRange[3]
Within(v) == IF LoopRange[1] > LoopRange[2] THEN v >= LoopRange[2] ELSE v <= LoopRange[2]

\* C31: in a for loop over an integer range the first iteration starts at the start of
\* the range and every other one at the value the index variable held when the body
\* before it ended, advanced by one step; no iteration starts with a value that has
\* passed the end bound, and the loop ends without an error exactly when the advanced
\* value has passed it; a body that leaves a value of another kind in the index
\* variable is the last one and the loop fails with an error
C31_IndexCarries ==
    /\ \A n \in 1..Len(obs.visits) :
          /\ Within(obs.visits[n])
          /\ IF n = 1 THEN obs.visits[n] = LoopRange[1]
             ELSE /\ n - 1 <= Len(obs.finals)
                  /\ obs.finals[n - 1].k = "Int64"
                  /\ obs.visits[n] = Advanced(obs.finals[n - 1].v)
    /\ \A n \in 1..Len(obs.finals) :
          obs.finals[n].k # "Int64"
              => n = Len(obs.finals) /\ Len(obs.visits) = n /\ ret.set /\ ret.err = ErrKind
    /\ (ForReturned /\ ret.err = Nil)
          => /\ Len(obs.finals) = Len(obs.visits)
             /\ IF obs.visits = <<>> THEN ~Within(LoopRange[1])
                ELSE ~Within(Advanced(Last(obs.finals).v))
    /\ (ForReturned /\ ret.err # Nil)
          => ret.err = ErrKind /\ obs.finals # <<>> /\ Last(obs.finals).k # "Int64"

\* a loop has ended without an error after a body moved the index: an iteration began
\* with a value that is not the one before it plus a step
C31_Witness ==
    /\ ForReturned /\ ret.err = Nil
    /\ Len(obs.visits) >= 2
    /\ \E n \in 2..Len(obs.visits) : obs.visits[n] # Advanced(obs.visits[n - 1])

-----------------------------------------------------------------------------
(* Binary expressions on two values *)

\* Binary.Evaluate of  L Op R  for the operators + - * / %: both operands are
\* evaluated, then + goes to addOperator and the others to numOperator
BinaryEvaluate(c, h, b) ==
    With(ExprEvaluate(c, b.L), LAMBDA l :
    IF l.err # Nil THEN [val |-> NilVal, err |-> l.err, panic |-> FALSE, heap |-> h]
    ELSE With(ExprEvaluate(c, b.R), LAMBDA r :
         IF r.err # Nil THEN [val |-> NilVal, err |-> r.err, panic |-> FALSE, heap |-> h]
         ELSE IF b.Op = "+"
         THEN With(addOperatorArray(h, l.val, r.val), LAMBDA q :
                   [val |-> q.val, err |-> q.err, panic |-> FALSE, heap |-> q.heap])
         ELSE With(numOperator(b.Op, l.val, r.val), LAMBDA q :
                   [val |-> q.val, err |-> q.err, panic |-> q.panic, heap |-> h])))

\* the values of the operands: integers, floats in tenths, booleans, strings, an array
\* and a map
BinaryScalars ==
    {IntVal(n) : n \in {0, 3, -7}}
    \cup {Tenths(t) : t \in {45, -5, 20}}
    \cup {BoolVal(b) : b \in BOOLEAN}
    \cup {StrVal(st) : st \in {"", "ab", "0", "2"}}
BinaryValues == BinaryScalars \cup {SliceRef(1, 2), MapRef(2)}

\* a context that binds l and r to two of the values
InitBinary ==
    /\ prog = NoProgram
    /\ names = <<>>
    /\ pargs = <<>>
    /\ \E vl \in BinaryValues, vr \in BinaryValues :
          ctx = CtxSet(CtxSet(renewContext, "l", vl), "r", vr)
    /\ nid = 1
    /\ stack = <<>>
    /\ ret = NoRet
    /\ result = "running"
    /\ obs = Obs0(prog)
    /\ scanner = NoScanner
    /\ parser = NoParser
    /\ env = NoEnv
    /\ heap = <<(<<IntVal(1), IntVal(2)>>), MapFrom(<<IntVal(1)>>)>>

\* the expression  l Op r  is evaluated; a panic ends the program
EvaluateBinary ==
    /\ result = "running"
    /\ obs.op = <<>>
    /\ \E op \in {"+"} \cup NumOps :
          LET r == BinaryEvaluate(ctx, heap, Bin(op, Id("l"), Id("r")))
          IN  /\ result' = IF r.panic THEN "panic" ELSE r.err
              /\ obs' = [obs EXCEPT !.op = <<[node |-> Bin(op, Id("l"), Id("r")),
                                              val |-> r.val]>>]
              /\ heap' = r.heap
    /\ UNCHANGED <<prog, names, pargs, ctx, nid, stack, ret, scanner, parser, env>>

SpecBinary == InitBinary /\ [][EvaluateBinary]_vars

\* l Op r has been evaluated; the operands
Evaluated(op) == obs.op # <<>> /\ obs.op[1].node.Op = op
OperandL == CtxGet(ctx, "l")
OperandR == CtxGet(ctx, "r")

\* the decimal text of the floats explored
FloatText(t) == CASE t = 45 -> "4.5" [] t = -5 -> "-0.5" [] t = 20 -> "2"
\* the decimal or textual form of a scalar value
TextOf(val) ==
    CASE val.k = "Int64" -> ToString(val.v)
      [] val.k = "Float64" -> FloatText(val.v)
      [] val.k = "Bool" -> IF val.v THEN "true" ELSE "false"
      [] val.k = "String" -> val.v
Scalar(val) == val.k \in {"Int64", "Float64", "Bool", "String"}

\* l + r is the string made of the text of l followed by the text of r
Concatenated ==
    /\ result = Nil
    /\ obs.op[1].val.k = "String"
    /\ Scalar(OperandL) /\ Scalar(OperandR)
    /\ obs.op[1].val.v = TextOf(OperandL) \o TextOf(OperandR)

\* for every string s and every value v, s + v and v + s are the string s with the
\* text of v on the respective side
C32_AnyValue ==
    (Evaluated("+") /\ (OperandL.k = "String" \/ OperandR.k = "String")) => Concatenated

\* C32: for every string s and every integer, float, boolean or string v, s + v and
\* v + s are a String equal to s concatenated, on the respective side, with the
\* decimal or textual form of v
C32_StringConcat ==
    (Evaluated("+") /\ (OperandL.k = "String" \/ OperandR.k = "String")
       /\ Scalar(OperandL) /\ Scalar(OperandR)) => Concatenated

\* a float was put before a string
C32_Witness ==
    /\ Evaluated("+") /\ OperandL = Tenths(45) /\ OperandR = StrVal("ab")
    /\ obs.op[1].val = StrVal("4.5ab")

-----------------------------------------------------------------------------
(* Arrays made by + *)

\* statements  t = L + R  evaluated in one run
MaxConcats == 3

\* the variables, each bound to an array
ArrayIdents == {"a", "c", "d"}
\* the operands: a variable or a literal, and one of the two a variable
LeftOperands == {Id(x) : x \in ArrayIdents} \cup {Lit(7)}
RightOperands == {Id(x) : x \in ArrayIdents} \cup {Lit(8), Lit(9)}

\* a = [1, 2], c = [3], d = [4]: ArrayLiteral.Evaluate makes each array with room
\* for exactly its elements
InitConcat ==
    /\ prog = NoProgram
    /\ names = <<>>
    /\ pargs = <<>>
    /\ ctx = CtxSet(CtxSet(CtxSet(renewContext, "a", SliceRef(1, 2)),
                            "c", SliceRef(2, 1)), "d", SliceRef(3, 1))
    /\ nid = 1
    /\ stack = <<>>
    /\ ret = NoRet
    /\ result = "running"
    /\ obs = Obs0(prog)
    /\ scanner = NoScanner
    /\ parser = NoParser
    /\ env = NoEnv
    /\ heap = <<(<<IntVal(1), IntVal(2)>>), (<<IntVal(3)>>), (<<IntVal(4)>>)>>

\* the elements an operand value stands for in a concatenation
OperandElems(h, val) == IF val.k = "Slice" THEN Elems(h, val) ELSE <<val>>

\* AssignStatement.Evaluate of  t = L + R : the value is evaluated and Ident.Set binds
\* t to it. What the operands and the variables held before is kept in obs.op
AssignConcat ==
    /\ result = "running"
    /\ nid <= MaxConcats
    /\ \E t \in ArrayIdents, l \in LeftOperands, r \in RightOperands :
          LET b == Bin("+", l, r)
              q == BinaryEvaluate(ctx, heap, b)
              set == IdentSet(ctx, q.heap, t, q.val, <<>>)
          IN  /\ l.n = "id" \/ r.n = "id"
              /\ ctx' = set.ctx
              /\ heap' = set.heap
              /\ result' = IF set.panic THEN "panic"
                            ELSE IF set.err # Nil THEN set.err ELSE "running"
              /\ obs' = [obs EXCEPT !.op =
                            <<[node |-> b, target |-> t, val |-> q.val,
                               l |-> ExprEvaluate(ctx, l).val,
                               r |-> ExprEvaluate(ctx, r).val,
                               lelems |-> OperandElems(heap, ExprEvaluate(ctx, l).val),
                               relems |-> OperandElems(heap, ExprEvaluate(ctx, r).val),
                               was |-> [x \in ArrayIdents |-> Elems(heap, CtxGet(ctx, x))]]>>]
    /\ nid' = nid + 1
    /\ UNCHANGED <<prog, names, pargs, stack, ret, scanner, parser, env>>

SpecConcat == InitConcat /\ [][AssignConcat]_vars

\* the last statement evaluated
LastConcat == obs.op[1]

\* the array t was bound to holds the left elements followed by the right elements
IsConcatenation ==
    obs.op # <<>> =>
        /\ LastConcat.val.k = "Slice"
        /\ CtxGet(ctx, LastConcat.target) = LastConcat.val
        /\ Elems(heap, LastConcat.val) = LastConcat.lelems \o LastConcat.relems

\* the operand arrays hold the elements they held
OperandsKept ==
    obs.op # <<>> =>
        /\ LastConcat.l.k = "Slice" => Elems(heap, LastConcat.l) = LastConcat.lelems
        /\ LastConcat.r.k = "Slice" => Elems(heap, LastConcat.r) = LastConcat.relems

\* the array is a new one: the arrays of the variables that were not assigned hold
\* the elements they held
OtherArraysKept ==
    obs.op # <<>> =>
        \A x \in ArrayIdents \ {LastConcat.target} :
            Elems(heap, CtxGet(ctx, x)) = LastConcat.was[x]

\* C33: + on arrays yields the concatenation as a new Array: array + array is the left
\* elements followed by the right elements, scalar + array the scalar followed by the
\* elements, array + scalar the elements followed by the scalar, and the operand
\* arrays hold their original elements afterwards
C33_NewArray == IsConcatenation /\ OperandsKept /\ OtherArraysKept

\* the parts of C33 about the elements of the result and of the operands
C33_ConcatenationOnly == IsConcatenation /\ OperandsKept

-----------------------------------------------------------------------------
(* A loop that starts after a sibling loop has ended *)

\* a loop of the outermost block is running after an earlier statement of that block,
\* a sibling loop, has returned
LaterSibling == stack # <<>> /\ stack[1].f = "block" /\ stack[1].i >= 2 /\ NumLoops > 0

\* no break and no continue statement of the loops that are running is pending
NothingPending == obs.dead = {} /\ obs.brkT = -1 /\ obs.contT = -1

\* C34: a break that ended one loop has no effect on a loop that starts afterwards: a
\* for statement that begins after an earlier sibling loop has ended, by break or
\* normally, is told to stop an iteration or a body only by a break or continue
\* statement of its own, so without one it runs every iteration and every statement
C34_BreakLeavesNothing ==
    (LaterSibling /\ NothingPending)
        => ~ShouldBreak(ctx, TRUE) /\ ~ShouldBreak(ctx, FALSE)

\* the same of the first loop of the block, which no loop has ended before
C34_FirstLoop ==
    (stack # <<>> /\ stack[1].f = "block" /\ stack[1].i = 1 /\ NumLoops > 0 /\ NothingPending)
        => ~ShouldBreak(ctx, TRUE) /\ ~ShouldBreak(ctx, FALSE)

-----------------------------------------------------------------------------
(* A function whose block returns *)

\* the statements of the body of the function: returns, an assignment, a return under
\* an if and a return in a loop of two iterations
ReturnStatements ==
    {Return(1), Return(2), Assign("x", 1), If(<<Return(3)>>),
     For("", "i", 0, TRUE, 1, TRUE, <<Return(4)>>)}

\* the bodies explored
ReturnBodies == UNION {[1..n -> ReturnStatements] : n \in 1..3}

\* the block  @f  of a program that declares  f() { body }
InitReturn ==
    /\ \E body \in ReturnBodies :
          prog = [NewCook EXCEPT !.fns = [n \in {"f"} |-> Function(<<>>, body)]]
    /\ names = <<>>
    /\ pargs = <<>>
    /\ ctx = renewContext
    /\ nid = 1
    /\ stack = <<BlockFrame(<<Call("f", <<>>)>>)>>
    /\ ret = NoRet
    /\ result = "running"
    /\ obs = Obs0(prog)
    /\ scanner = NoScanner
    /\ parser = NoParser
    /\ env = NoEnv
    /\ heap = NoHeap

EvaluateReturn ==
    \/ CallEvaluate
    \/ FunctionReturn
    \/ ReturnStatement
    \/ AssignStatement
    \/ IfStatement
    \/ ForStatement
    \/ ForIterate
    \/ ForExecuteInsts
    \/ BlockResume
    \/ BlockEnd

SpecReturn == InitReturn /\ [][EvaluateReturn]_vars

\* the function is running / has just returned
InFunction == \E k \in 1..Len(stack) : stack[k].f = "fn"
FunctionReturned == ret.set /\ ret.from = "fn"

\* a statement, or an iteration of a loop, is about to begin
AboutToBegin == AtStmt \/ (stack # <<>> /\ Top.f = "for" /\ ~ret.set /\ IterCond(Top))

\* C35: once a return statement has been evaluated in a function with a block, also
\* one under an if or in a for loop of the block, no further statement of the function
\* begins, and the call yields the value of that return statement
C35_ReturnEndsFunction ==
    /\ (InFunction /\ obs.returns # <<>>) => ~AboutToBegin
    /\ (FunctionReturned /\ obs.returns # <<>>)
           => ret.err = Nil /\ ret.val = obs.returns[1]

\* when the only return statement evaluated is the last statement of the block of the
\* function, the call yields its value
C35_LastStatement ==
    (FunctionReturned /\ Len(obs.returns) = 1
       /\ Last(prog.fns["f"].Insts).op = "return"
       /\ \A j \in 1..(Len(prog.fns["f"].Insts) - 1) : prog.fns["f"].Insts[j].op = "assign")
        => ret.err = Nil /\ ret.val = obs.returns[1]

-----------------------------------------------------------------------------
(* A variable made from an element and assigned another element *)

\* a = [1, 2] and c = [3, 4]
InitRebind ==
    /\ prog = NoProgram
    /\ names = <<>>
    /\ pargs = <<>>
    /\ ctx = CtxSet(CtxSet(renewContext, "a", SliceRef(1, 2)), "c", SliceRef(2, 2))
    /\ nid = 1
    /\ stack = <<>>
    /\ ret = NoRet
    /\ result = "running"
    /\ obs = Obs0(prog)
    /\ scanner = NoScanner
    /\ parser = NoParser
    /\ env = NoEnv
    /\ heap = <<(<<IntVal(1), IntVal(2)>>), (<<IntVal(3), IntVal(4)>>)>>

\* the element the latest statement  b = X[k]  that succeeded names, <<>> if there is none
BoundTo == IF obs.op = <<>> THEN <<>> ELSE obs.op[1].bound

\* AssignStatement.Evaluate of a statement that assigns b, evaluated on its own
RebindStatement(as) ==
    LET r == AssignStatementEvaluate(ctx, heap, nid, as, TRUE)
        ok == ~r.panic /\ r.err = Nil
    IN  /\ StatementEnds(r)
        /\ obs' = [obs EXCEPT
                     !.steps = @ + 1,
                     !.op = <<[kind |-> "assign", node |-> as, before |-> ctx, heap |-> heap,
                               was |-> BoundTo,
                               bound |-> IF ok /\ as.Op = "=" /\ isIndex(as.Value)
                                         THEN <<as.Value>> ELSE BoundTo]>>,
                     !.made = IF /\ as.Op = "=" /\ isIndex(as.Value) /\ ok
                                 /\ CtxGet(ctx, "b").k = "Invalid"
                              THEN Bind(@, "b", as.Value)
                              ELSE @]
        /\ UNCHANGED <<prog, names, pargs, nid, stack, ret, scanner, parser, env>>

\* b = a[i]  and  b = c[j]
RebindFromIndex ==
    /\ result = "running" /\ obs.steps < MaxSteps
    /\ \E x \in {"a", "c"}, i \in 0..1 : RebindStatement(AssignNode(Id("b"), "=", Index(x, i)))

\* b = 5, b = "x", b += 5 and b += "x"
RebindAssign ==
    /\ result = "running" /\ obs.steps < MaxSteps
    /\ \E op \in {"=", "+="}, lit \in Literals : RebindStatement(AssignNode(Id("b"), op, lit))

SpecRebind == InitRebind /\ [][RebindFromIndex \/ RebindAssign]_vars

\* what the element held before the last statement, and what it holds now
ElementBefore(node) == evaluateInternal(obs.op[1].before, obs.op[1].heap, 0, node, <<>>).val
ElementAfter(node) == evaluateInternal(ctx, heap, 0, node, <<>>).val

\* the last statement gave b, made from a[i], another element c[j]
Rebound ==
    /\ AssignedB /\ MadeFromElement
    /\ obs.op[1].node.Op = "=" /\ isIndex(obs.op[1].node.Value)
    /\ obs.op[1].node.Value # MadeFrom

\* the last statement assigned b after b had been given another element c[j]
AssignedAfterRebound ==
    /\ AssignedB /\ MadeFromElement
    /\ ~isIndex(obs.op[1].node.Value)
    /\ obs.op[1].was # <<>> /\ obs.op[1].was[1] # MadeFrom

\* C36: when b was created by b = a[i] and is assigned b = c[j], that assignment leaves
\* a[i] as it was, and every later assignment to b is stored in c[j] and not in a[i]
C36_ReferenceMoves ==
    /\ Rebound => ElementAfter(MadeFrom) = ElementBefore(MadeFrom)
    /\ AssignedAfterRebound
          => /\ ElementAfter(obs.op[1].was[1]) = CtxGet(ctx, "b")
             /\ ElementAfter(MadeFrom) = ElementBefore(MadeFrom)

\* what the assignments do: b = c[j] stores the value of c[j] in a[i], and every later
\* assignment to b is stored in a[i] and leaves c[j] as it was
C36_ReferenceStays ==
    /\ Rebound => ElementAfter(MadeFrom) = ElementBefore(obs.op[1].node.Value)
    /\ AssignedAfterRebound
          => /\ ElementAfter(MadeFrom) = CtxGet(ctx, "b")
             /\ ElementAfter(obs.op[1].was[1]) = ElementBefore(obs.op[1].was[1])

-----------------------------------------------------------------------------
(* A merge that fails *)

\* the bare merge  t += s  has returned the error of a key of both maps
MergeFailed == Merged /\ obs.op[1].node.Op = "" /\ result = ErrKeyExist

\* C37: a map merge that fails is atomic: when a bare += MergeMap returns the error of
\* a key conflict, the target map holds exactly the keys and values it held before the
\* merge began, whatever the order in which the keys of the source were visited
C37_MergeAtomic == MergeFailed => TargetAfter = TargetBefore

\* after a merge that failed the keys the target held have the values they had, and
\* every other key of the target is a key of the source with the value of the source
C37_TargetKeysKept ==
    MergeFailed =>
        /\ \A key \in DOMAIN TargetBefore :
              key \in DOMAIN TargetAfter /\ TargetAfter[key] = TargetBefore[key]
        /\ \A key \in DOMAIN TargetAfter \ DOMAIN TargetBefore :
              key \in DOMAIN SourceBefore /\ TargetAfter[key] = SourceBefore[key]

-----------------------------------------------------------------------------
(* Division by zero *)

\* the operand is an integer, or a string that holds one
IntegerOperand(val) == val.k = "Int64" \/ (val.k = "String" /\ val.v \in {"0", "2"})
\* the operand is the integer zero, as an integer or as a string
ZeroOperand(val) == val = IntVal(0) \/ val = StrVal("0")

\* l / r or l % r has been evaluated on integers: one operand is an Int64 and the
\* other an Int64 or a string that holds an integer
IntegerDivision ==
    /\ Evaluated("/") \/ Evaluated("%")
    /\ IntegerOperand(OperandL) /\ IntegerOperand(OperandR)
    /\ OperandL.k = "Int64" \/ OperandR.k = "Int64"

\* C38: integer division or remainder with a right operand equal to zero, an Int64 or
\* a numeric string converted to an integer, is reported as an error returned from the
\* expression; it never crashes the evaluation
C38_DivisionByZeroIsError ==
    (IntegerDivision /\ ZeroOperand(OperandR)) => result # "panic" /\ result # Nil

\* with a right operand that is not zero the division and the remainder return a value
\* and no error
C38_NonZeroDivisor ==
    (IntegerDivision /\ ~ZeroOperand(OperandR))
        => result = Nil /\ obs.op[1].val.k = "Int64"
====
